---- MODULE Spec2Model ----
(***************************************************************************)
(* The audit / pending-edit core of treemap/audit.py as a state machine.   *)
(*                                                                         *)
(* State: the record store (rows), the audit ledger (audits), the id       *)
(* sequences (id_seq) and the in-memory tracked model instance that the    *)
(* last successful save or delete call left behind (obj), the              *)
(* FieldPermission table of the roles that are set up (field_permissions), *)
(* the number of post_save signals sent for each Audit row (post_save) and *)
(* the reputation of each user in each tenant (reputation).                *)
(*                                                                         *)
(* Every handler is a pure operator from the database, the in-memory       *)
(* instance and its arguments to an outcome [db, obj, exc]; the actions    *)
(* commit the outcome.  Python None and SQL NULL are the integer 0; a      *)
(* value stored in an Audit text column is a sequence (<<>> for NULL,      *)
(* <<v>> for the text of v).                                               *)
(***************************************************************************)
EXTENDS Integers, Sequences, FiniteSets, TLC

VARIABLES rows, audits, id_seq, obj, field_permissions, post_save,
          reputation

vars ==
    <<rows, audits, id_seq, obj, field_permissions, post_save, reputation>>

----------------------------------------------------------------------------
(* Bounds of the model *)

\* the ledger holds at most MaxAudits rows
MaxAudits == 5

\* at most MaxSignals post_save signals are sent for an Audit row
MaxSignals == 4

\* at most MaxNewIds values are drawn from each id sequence
MaxNewIds == 1

\* the ledger holds at most MaxUpdates Update audits and MaxDeletes Delete
\* audits
MaxUpdates == 2

MaxDeletes == 1

----------------------------------------------------------------------------
(* Program constants *)

None == 0

\* FieldPermission levels
NONE == 0
READ_ONLY == 1
WRITE_WITH_AUDIT == 2
WRITE_DIRECTLY == 3

\* Audit.Type
Insert == 1
Delete == 2
Update == 3
PendingApprove == 4
PendingReject == 5
ReviewApprove == 6
ReviewReject == 7

----------------------------------------------------------------------------
(* The tracked model types: Plot(geom), Tree(plot, diameter) and           *)
(* Species(genus), where Tree.plot is a required foreign key to Plot and   *)
(* Tree.diameter is nullable.  'instance' is in _do_not_track and is kept  *)
(* beside the tracked values.                                              *)

Models == {"Plot", "Tree", "Species"}

Instances == {1}

Users == {"commander", "apprentice", "officer"}

\* as_dict keys minus _do_not_track
tracked_fields(m) ==
    CASE m = "Plot" -> {"id", "geom"}
      [] m = "Tree" -> {"id", "plot", "diameter"}
      [] OTHER -> {"id", "genus"}

\* not null, not blank, not the primary key, not in _do_not_track
_fields_required_for_create(m) ==
    CASE m = "Plot" -> {"geom"}
      [] m = "Tree" -> {"plot"}
      [] OTHER -> {"genus"}

\* the ForeignKey fields of a model (other than instance) and their target
ForeignKeys(m) == IF m = "Tree" THEN {"plot"} ELSE {}

\* the order in which a save writes its audit rows
FieldOrder == <<"geom", "plot", "diameter", "genus", "id">>

\* the values a caller assigns to a field
FieldValues(m, f) ==
    IF f = "geom" THEN {1, 2}
    ELSE IF f = "diameter" THEN {10, 12}
    ELSE IF f = "genus" THEN {1}
    ELSE {}

\* the rows imported before auditing began (they have no audit rows)
SeedRows ==
    { [model |-> "Plot", instance |-> 1, vals |-> [id |-> 1, geom |-> 1]],
      [model |-> "Plot", instance |-> 1, vals |-> [id |-> 2, geom |-> 2]],
      [model |-> "Tree", instance |-> 1,
       vals |-> [id |-> 1, plot |-> 1, diameter |-> 10]] }

SeedSeq ==
    [m \in Models |-> IF m = "Plot" THEN 2 ELSE IF m = "Tree" THEN 1 ELSE 0]

NoObj == [model |-> "NoObj"]

----------------------------------------------------------------------------
(* Permissions *)

\* the users of the permission checks: besides Users, a surveyor and a
\* director
AllUsers == Users \cup {"surveyor", "director"}

\* the role of each user in a tenant: the commander and the director are
\* administrators
get_role(u, inst) ==
    IF u \in {"commander", "director"} THEN "administrator" ELSE u

\* the role of the user has a FieldPermission row for the field: the
\* director has none
HasGrant(u, inst, m, f) == u # "director"

\* Role.default_permission: the administrator roles were created with
\* WRITE_DIRECTLY, the editor with WRITE_WITH_AUDIT, the viewer with
\* READ_ONLY, the other roles with the default of the column
default_permission(role) ==
    CASE role = "administrator" -> WRITE_DIRECTLY
      [] role = "editor" -> WRITE_WITH_AUDIT
      [] role = "viewer" -> READ_ONLY
      [] OTHER -> NONE

\* the effective level of a user on a field of a model type in a tenant:
\* the commander writes everything directly, the apprentice writes everything
\* with audit, the surveyor reads Tree.plot and writes the other fields
\* directly, the director has no level, the officer reads plots, writes
\* Tree.plot with audit and the other fields directly
permission_level(u, inst, m, f) ==
    CASE u = "commander" -> WRITE_DIRECTLY
      [] u = "apprentice" -> WRITE_WITH_AUDIT
      [] u = "surveyor" -> IF f = "plot" THEN READ_ONLY ELSE WRITE_DIRECTLY
      [] u = "director" -> NONE
      [] OTHER ->
            IF m = "Plot" THEN READ_ONLY
            ELSE IF f = "plot" THEN WRITE_WITH_AUDIT
            ELSE WRITE_DIRECTLY

\* FieldPermission.allows_writes / allows_reads
allows_writes(level) == level >= WRITE_WITH_AUDIT

allows_reads(level) == level >= READ_ONLY

\* user.get_instance_permissions(instance, model_name): the permission rows
get_instance_permissions(u, inst, m) ==
    { [field_name |-> f, permission_level |-> permission_level(u, inst, m, f)] :
        f \in { g \in tracked_fields(m) : HasGrant(u, inst, m, g) } }

----------------------------------------------------------------------------
(* Serialization of values into the Audit text columns and back *)

Serialize(v) == IF v = None THEN <<>> ELSE <<v>>

\* field_cls.to_python of a non-NULL text
to_python(t) == t[1]

----------------------------------------------------------------------------
(* The record store *)

RowExists(db, m, pk) ==
    \E r \in db.rows : r.model = m /\ r.vals.id = pk

\* TheModel.objects.get(pk=...) when the row exists
objects_get(db, m, pk) ==
    CHOOSE r \in db.rows : r.model = m /\ r.vals.id = pk

\* the NOT NULL and FOREIGN KEY constraints of the table of a model
ConstraintsHold(db, m, vals) ==
    /\ \A f \in _fields_required_for_create(m) : vals[f] # None
    /\ \A f \in ForeignKeys(m) :
          vals[f] # None => RowExists(db, "Plot", vals[f])

\* rows with the row (m, vals.id) written (UPDATE, or INSERT when missing)
WriteRow(db, m, inst, vals) ==
    [db EXCEPT !.rows =
        { r \in db.rows : ~(r.model = m /\ r.vals.id = vals.id) }
        \cup { [model |-> m, instance |-> inst, vals |-> vals] }]

\* models.Model.delete: the row and, by ON DELETE CASCADE, the trees of a plot
DeleteRow(db, m, pk) ==
    [db EXCEPT !.rows =
        { r \in db.rows :
            /\ ~(r.model = m /\ r.vals.id = pk)
            /\ ~(m = "Plot" /\ r.model = "Tree" /\ r.vals.plot = pk) }]

\* a faulty variant of nextval: the current value of the sequence
currval(db, m) == db.id_seq[m]

\* select nextval(id sequence of the model)
nextval(db, m) == db.id_seq[m] + 1

AdvanceSeq(db, m) == [db EXCEPT !.id_seq[m] = db.id_seq[m] + 1]

DB ==
    [rows |-> rows, audits |-> audits, id_seq |-> id_seq,
     post_save |-> post_save, reputation |-> reputation]

----------------------------------------------------------------------------
(* Outcomes of a call: the database and the in-memory instance it leaves,  *)
(* and the exception it raised ("ok" when it returned).                    *)

Return(db, o) == [db |-> db, obj |-> o, exc |-> "ok"]

Raise(db, o, e) == [db |-> db, obj |-> o, exc |-> e]

\* the field of an Audit that describes a whole-record delete
NullField == ""

\* a new Audit row; requires_auth defaults to False and ref to None
Audit(m, model_id, inst, f, prev, cur, u, action, requires_auth) ==
    [model |-> m, model_id |-> model_id, instance |-> inst, field |-> f,
     previous_value |-> prev, current_value |-> cur, user |-> u,
     action |-> action, requires_auth |-> requires_auth, ref |-> None]

\* Audit.save() of new rows, in order
\* ReputationMetric.objects.get(instance, model_name, action): the tenants
\* score the inserts, updates and deletes of every model type
ReputationMetric_objects_get(inst, m, action) ==
    IF action \in {Insert, Update, Delete}
    THEN {[direct_write_score |-> 1, approval_score |-> 2, denial_score |-> 1]}
    ELSE {}

\* ReputationMetric.apply_adjustment on the Audit row as it was saved
apply_adjustment(db, a) ==
    LET audit == db.audits[a]
        metrics == ReputationMetric_objects_get(audit.instance, audit.model,
                                                audit.action)
        rm == CHOOSE metric \in metrics : TRUE
        iuser == <<audit.user, audit.instance>>
        score == db.reputation[iuser]
    IN  IF metrics = {} THEN db
        ELSE IF audit.requires_auth /\ audit.ref # None
        THEN IF db.audits[audit.ref].action = PendingApprove
             THEN [db EXCEPT !.reputation[iuser] = score + rm.approval_score]
             ELSE IF db.audits[audit.ref].action = PendingReject
             THEN [db EXCEPT !.reputation[iuser] =
                      IF score - rm.denial_score >= 0
                      THEN score - rm.denial_score ELSE 0]
             ELSE db
        ELSE IF ~audit.requires_auth
        THEN [db EXCEPT !.reputation[iuser] = score + rm.direct_write_score]
        ELSE db

\* audit_presave_actions, the receiver of post_save of Audit: the signal is
\* counted and the reputation is adjusted
audit_presave_actions(db, a) ==
    apply_adjustment([db EXCEPT !.post_save[a] = db.post_save[a] + 1], a)

\* Audit(...).save() of a new row
Audit_save(db, audit) ==
    audit_presave_actions(
        [db EXCEPT !.audits = Append(db.audits, audit),
                   !.post_save = Append(db.post_save, 0)],
        Len(db.audits) + 1)

\* Audit(...).save() for each audit of a sequence
RECURSIVE SaveAudits(_, _)
SaveAudits(db, new) ==
    IF new = << >> THEN db
    ELSE SaveAudits(Audit_save(db, Head(new)), Tail(new))

----------------------------------------------------------------------------
(* UserTrackable *)

pk(o) == o.vals.id

\* self._previous_state.get(key, None)
PrevGet(o, k) == IF k \in DOMAIN o.prev THEN o.prev[k] ELSE None

\* the keys of the diff between the live values and the snapshot
_updated_fields(o) ==
    { k \in DOMAIN o.vals : o.vals[k] # PrevGet(o, k) }

\* a faulty variant of populate_previous_state: the snapshot is left as it
\* was
KeepsSnapshot(o) == o

\* the snapshot taken on construction, load and after each write
populate_previous_state(o) ==
    IF pk(o) = None THEN [o EXCEPT !.prev = << >>]
    ELSE [o EXCEPT !.prev = o.vals]

\* setattr of a raw (as_dict) value raises ValueError on a ForeignKey:
\* None on a non-nullable one, and any id, which is not a model instance
RawAssignRaises(m, f, v) ==
    f \in ForeignKeys(m) /\ (v # None \/ f \in _fields_required_for_create(m))

\* UserTrackable.save_with_user: models.Model.save, then the new snapshot
UserTrackable_save_with_user(db, o) ==
    IF ~ConstraintsHold(db, o.model, o.vals)
    THEN Raise(db, o, "IntegrityError")
    ELSE IF pk(o) = None
    THEN LET id == nextval(db, o.model)
             saved == [o EXCEPT !.vals.id = id]
         IN  Return(WriteRow(AdvanceSeq(db, o.model), o.model, o.instance,
                             saved.vals),
                    populate_previous_state(saved))
    ELSE Return(WriteRow(db, o.model, o.instance, o.vals),
                populate_previous_state(o))

\* UserTrackable.delete_with_user: models.Model.delete, then the snapshot
\* is emptied; Django refuses an instance without pk and clears the pk
UserTrackable_delete_with_user(db, o) ==
    IF pk(o) = None THEN Raise(db, o, "AssertionError")
    ELSE Return(DeleteRow(db, o.model, pk(o)),
                [o EXCEPT !.vals.id = None, !.prev = << >>])

\* a faulty variant of save: the low-level save persists the record
UntrackedSave(db, o) == UserTrackable_save_with_user(db, o)

\* UserTrackable.save: the low-level save is refused
save(db, o) == Raise(db, o, "UserTrackingException")

\* UserTrackable.delete: the low-level delete is refused
delete(db, o) == Raise(db, o, "UserTrackingException")

----------------------------------------------------------------------------
(* Authorizable *)

\* a faulty variant of _get_perms_set: every tracked field counts as granted
AllFieldsGranted(o, u, direct_only) == tracked_fields(o.model)

\* a faulty variant of _get_perms_set: direct_only is not looked at
WritablePermsSet(o, u, direct_only) ==
    { p.field_name : p \in
        { q \in get_instance_permissions(u, o.instance, o.model) :
            allows_writes(q.permission_level) } }

_get_perms_set(o, u, direct_only) ==
    LET perms == get_instance_permissions(u, o.instance, o.model)
    IN  IF direct_only
        THEN { p.field_name : p \in
                 { q \in perms : q.permission_level = WRITE_DIRECTLY } }
        ELSE { p.field_name : p \in
                 { q \in perms : allows_writes(q.permission_level) } }

\* a faulty variant of user_can_delete: the administrator role is not
\* looked at
HoldsEveryField(o, u) ==
    tracked_fields(o.model) \subseteq _get_perms_set(o, u, FALSE)

user_can_delete(o, u) ==
    \/ get_role(u, o.instance) = "administrator"
    \/ tracked_fields(o.model) \subseteq _get_perms_set(o, u, FALSE)

\* a faulty variant of user_can_create: the required fields are not checked
AnyoneCanCreate(o, u, direct_only) == TRUE

user_can_create(o, u, direct_only) ==
    \A f \in _fields_required_for_create(o.model) :
        f \in _get_perms_set(o, u, direct_only)

get_pending_fields(o, u) ==
    { p.field_name : p \in
        { q \in get_instance_permissions(u, o.instance, o.model) :
            /\ q.permission_level = WRITE_WITH_AUDIT
            /\ q.field_name \in _updated_fields(o) } }

----------------------------------------------------------------------------
(* Auditable *)

\* the fields of FieldOrder that are in S, in that order
Ordered(S) == SelectSeq(FieldOrder, LAMBDA f : f \in S)

\* make_audit_and_save for each field of a sequence of fields
MakeAudits(fs, o, model_id, u, action, pending) ==
    [i \in 1..Len(fs) |->
        IF fs[i] = "id"
        THEN Audit(o.model, model_id, o.instance, "id",
                   Serialize(None), Serialize(model_id), u, action, pending)
        ELSE Audit(o.model, model_id, o.instance, fs[i],
                   Serialize(PrevGet(o, fs[i])), Serialize(o.vals[fs[i]]),
                   u, action, pending)]

\* the instance after the pending fields were set back to their old value;
\* a ValueError of apply_change is swallowed and leaves the new value
ClearPendingChanges(o, pending_fields) ==
    [o EXCEPT !.vals =
        [f \in DOMAIN o.vals |->
            IF f \in pending_fields
               /\ ~RawAssignRaises(o.model, f, PrevGet(o, f))
            THEN PrevGet(o, f)
            ELSE o.vals[f]]]

\* _reserve_model_id: the next value of the sequence of the model; whatever
\* goes wrong in the store is raised as IntegrityError
_reserve_model_id(db, m, store_fails) ==
    IF store_fails THEN [exc |-> "IntegrityError", model_id |-> None]
    ELSE [exc |-> "ok", model_id |-> nextval(db, m)]

\* Auditable.save_with_user; auth_bypass is the 'unsafe' keyword, and
\* store_fails tells whether the sequence call of the reservation fails
Auditable_save_with_user_at(db, o, u, auth_bypass, store_fails) ==
    IF o.is_pending_insert THEN Raise(db, o, "Exception")
    ELSE
    LET updates == _updated_fields(o)
        is_insert == pk(o) = None
        action == IF is_insert THEN Insert ELSE Update
        pending_fields == get_pending_fields(o, u)
        cleared == ClearPendingChanges(o, pending_fields)
        direct_fields == updates \ pending_fields
    IN  IF \/ user_can_create(cleared, u, TRUE)
           \/ pk(cleared) # None
           \/ auth_bypass
        THEN LET saved == UserTrackable_save_with_user(db, cleared)
                 model_id == pk(saved.obj)
                 applied == IF is_insert THEN direct_fields \cup {"id"}
                            ELSE direct_fields
             IN  IF saved.exc # "ok" THEN saved
                 ELSE Return(
                        SaveAudits(saved.db,
                            MakeAudits(Ordered(applied), o, model_id, u,
                                       action, FALSE)
                            \o MakeAudits(Ordered(pending_fields), o,
                                          model_id, u, action, TRUE)),
                        saved.obj)
        ELSE LET reservation == _reserve_model_id(db, o.model, store_fails)
                 model_id == reservation.model_id
                 reserved == [cleared EXCEPT !.vals.id = model_id,
                                             !.is_pending_insert = TRUE]
             IN  IF reservation.exc # "ok"
                 THEN Raise(db, cleared, reservation.exc)
                 ELSE Return(
                    SaveAudits(AdvanceSeq(db, o.model),
                        MakeAudits(Ordered(direct_fields), o, model_id, u,
                                   action, FALSE)
                        \o MakeAudits(Ordered(pending_fields) \o <<"id">>, o,
                                      model_id, u, action, TRUE)),
                    reserved)

\* Auditable.save_with_user on a store whose sequences answer
Auditable_save_with_user(db, o, u, auth_bypass) ==
    Auditable_save_with_user_at(db, o, u, auth_bypass, FALSE)

\* a faulty variant of Auditable.delete_with_user: the Delete audit is not
\* saved
DeleteUnaudited(db, o, u) == UserTrackable_delete_with_user(db, o)

\* Auditable.delete_with_user: the Delete audit is built before the delete
\* and saved after it
Auditable_delete_with_user(db, o, u) ==
    LET a == Audit(o.model, pk(o), o.instance, NullField, Serialize(None),
                   Serialize(None), u, Delete, FALSE)
        deleted == UserTrackable_delete_with_user(db, o)
    IN  IF deleted.exc # "ok" THEN deleted
        ELSE Return(SaveAudits(deleted.db, <<a>>), deleted.obj)

----------------------------------------------------------------------------
(* Authorizable (first in the method resolution order) *)

Authorizable_save_with_user_at(db, o, u, store_fails) ==
    IF o.masked THEN Raise(db, o, "AuthorizeException")
    ELSE IF pk(o) # None
            /\ \E f \in _updated_fields(o) : f \notin _get_perms_set(o, u, FALSE)
    THEN Raise(db, o, "AuthorizeException")
    ELSE IF pk(o) = None /\ ~user_can_create(o, u, FALSE)
    THEN Raise(db, o, "AuthorizeException")
    ELSE Auditable_save_with_user_at(db, o, u, FALSE, store_fails)

Authorizable_save_with_user(db, o, u) ==
    Authorizable_save_with_user_at(db, o, u, FALSE)

save_with_user_without_verifying_authorization(db, o, u) ==
    Auditable_save_with_user(db, o, u, TRUE)

Authorizable_delete_with_user(db, o, u) ==
    IF o.masked THEN Raise(db, o, "AuthorizeException")
    ELSE IF user_can_delete(o, u)
    THEN Auditable_delete_with_user(db, o, u)
    ELSE Raise(db, o, "AuthorizeException")

\* the fields of the snapshot the user may not read are set to None
mask_unauthorized_fields(o, u) ==
    LET readable_fields ==
            { p.field_name : p \in
                { q \in get_instance_permissions(u, o.instance, o.model) :
                    allows_reads(q.permission_level) } }
        unreadable_fields == DOMAIN o.prev \ readable_fields
    IN  IF \E f \in unreadable_fields : RawAssignRaises(o.model, f, None)
        THEN [obj |-> o, exc |-> "ValueError"]
        ELSE [obj |-> [o EXCEPT
                        !.vals = [f \in DOMAIN o.vals |->
                                    IF f \in unreadable_fields THEN None
                                    ELSE o.vals[f]],
                        !.masked = TRUE],
              exc |-> "ok"]

----------------------------------------------------------------------------
(* Review of audits *)

\* the primary keys of the ledger
AuditPks(db) == 1..Len(db.audits)

\* the other Insert audits of the same tenant, model type and model id
get_related_audits(db, a, approved_only) ==
    LET insert_audit == db.audits[a]
    IN  { b \in AuditPks(db) :
            /\ b # a
            /\ db.audits[b].instance = insert_audit.instance
            /\ db.audits[b].model_id = insert_audit.model_id
            /\ db.audits[b].model = insert_audit.model
            /\ db.audits[b].action = Insert
            /\ approved_only =>
                 /\ db.audits[b].ref # None
                 /\ db.audits[db.audits[b].ref].action = PendingApprove }

\* the reviewer holds WRITE_DIRECTLY on the audited field
_verify_user_can_apply_audit(db, a, u) ==
    \E p \in get_instance_permissions(u, db.audits[a].instance,
                                      db.audits[a].model) :
        /\ p.field_name = db.audits[a].field
        /\ p.permission_level = WRITE_DIRECTLY

\* Audit._deserialize_value: a ForeignKey text is looked up in the store
DeserializeRaises(db, m, f, t) ==
    /\ t # << >>
    /\ f \in ForeignKeys(m)
    /\ ~RowExists(db, "Plot", to_python(t))

_deserialize_value(t) == IF t = << >> THEN None ELSE to_python(t)

\* review_audit.save(); audit.ref = review_audit; audit.save()
LinkReview(db, a, review_audit) ==
    LET review_pk == Len(db.audits) + 1
        reviewed == Audit_save(db, review_audit)
    IN  audit_presave_actions(
            [reviewed EXCEPT !.audits[a].ref = review_pk], a)

\* the review audit of an audit, by a reviewer, with an action
ReviewAudit(db, a, u, action) ==
    LET audit == db.audits[a]
    IN  Audit(audit.model, audit.model_id, audit.instance, audit.field,
              audit.previous_value, audit.current_value, u, action, FALSE)

\* obj.apply_change(field, value); obj.save_base() on a row of the store
ApplyAndSave(db, m, model_id, f, v) ==
    LET row == objects_get(db, m, model_id)
        vals == [row.vals EXCEPT ![f] = v]
    IN  IF v = None /\ RawAssignRaises(m, f, None)
        THEN [db |-> db, exc |-> "ValueError"]
        ELSE IF ~ConstraintsHold(db, m, vals)
        THEN [db |-> db, exc |-> "IntegrityError"]
        ELSE [db |-> WriteRow(db, m, row.instance, vals), exc |-> "ok"]

\* a faulty variant of _process_approved_pending_insert: the record is
\* written without a look at its foreign keys
MaterializeUnchecked(db, a) ==
    LET audit == db.audits[a]
        approved_audits == get_related_audits(db, a, TRUE)
        Approved(f) == { b \in approved_audits : db.audits[b].field = f }
        vals == [f \in tracked_fields(audit.model) |->
                    IF f = "id" THEN audit.model_id
                    ELSE IF Approved(f) # {}
                    THEN _deserialize_value(
                            db.audits[CHOOSE b \in Approved(f) : TRUE]
                              .current_value)
                    ELSE None]
    IN  [db |-> WriteRow(db, audit.model, audit.instance, vals), exc |-> "ok"]

\* the record of a pending insert is built from its approved audits
_process_approved_pending_insert(db, a) ==
    LET audit == db.audits[a]
        m == audit.model
        approved_audits == get_related_audits(db, a, TRUE)
        Approved(f) == { b \in approved_audits : db.audits[b].field = f }
        vals == [f \in tracked_fields(m) |->
                    IF f = "id" THEN audit.model_id
                    ELSE IF Approved(f) # {}
                    THEN _deserialize_value(
                            db.audits[CHOOSE b \in Approved(f) : TRUE]
                              .current_value)
                    ELSE None]
    IN  IF \E b \in approved_audits :
              DeserializeRaises(db, m, db.audits[b].field,
                                db.audits[b].current_value)
        THEN [db |-> db, exc |-> "DoesNotExist"]
        \* validate_foreign_keys_exist
        ELSE IF \E f \in ForeignKeys(m) :
                   vals[f] = None \/ ~RowExists(db, "Plot", vals[f])
        THEN [db |-> db, exc |-> "IntegrityError"]
        \* save_base
        ELSE IF ~ConstraintsHold(db, m, vals)
        THEN [db |-> db, exc |-> "IntegrityError"]
        ELSE [db |-> WriteRow(db, m, audit.instance, vals), exc |-> "ok"]

\* a faulty variant of the approved branch below: a missing record is
\* materialized by any of its audits
ApplyOrCreate(db, a) ==
    LET audit == db.audits[a]
    IN  IF RowExists(db, audit.model, audit.model_id)
        THEN ApplyAndSave(db, audit.model, audit.model_id, audit.field,
                          _deserialize_value(audit.current_value))
        ELSE LET made == _process_approved_pending_insert(db, a)
             IN  IF made.exc = "ok" THEN made ELSE [db |-> db, exc |-> "ok"]

\* the approved branch: a pending update is applied to the existing row,
\* a pending insert is materialized by its identity audit
ApplyApproved(db, a) ==
    LET audit == db.audits[a]
    IN  IF RowExists(db, audit.model, audit.model_id)
        THEN IF DeserializeRaises(db, audit.model, audit.field,
                                  audit.current_value)
             THEN [db |-> db, exc |-> "ok"]
             ELSE ApplyAndSave(db, audit.model, audit.model_id, audit.field,
                               _deserialize_value(audit.current_value))
        ELSE IF audit.field = "id"
        THEN _process_approved_pending_insert(db, a)
        ELSE [db |-> db, exc |-> "ok"]

\* a faulty variant of the guard below: no audit counts as resolved
NeverResolved(db, a) == FALSE

\* the audit has already been approved or rejected
AlreadyResolved(db, a) == db.audits[a].ref # None

RECURSIVE approve_or_reject_audit_and_apply(_, _, _, _, _)
RECURSIVE RejectRelated(_, _, _)

\* a faulty variant of the cascade below: the related audits are left alone
SkipRelated(db, related_audits, u) == [db |-> db, exc |-> "ok"]

\* related_audit.ref = None; related_audit.save(); then the recursive
\* rejection, for the related audits in the order of the queryset
RejectRelated(db, related_audits, u) ==
    IF related_audits = << >> THEN [db |-> db, exc |-> "ok"]
    ELSE LET b == Head(related_audits)
             cleared == audit_presave_actions(
                            [db EXCEPT !.audits[b].ref = None], b)
             rejected == approve_or_reject_audit_and_apply(
                            cleared, b, u, FALSE, << >>)
         IN  IF rejected.exc # "ok" THEN rejected
             ELSE RejectRelated(rejected.db, Tail(related_audits), u)

\* related_audits is the queryset of get_related_audits in the order the
\* store returns it (used when an identity audit is rejected)
approve_or_reject_audit_and_apply(db, a, u, approved, related_audits) ==
    IF AlreadyResolved(db, a) THEN [db |-> db, exc |-> "Exception"]
    ELSE IF ~_verify_user_can_apply_audit(db, a, u)
    THEN [db |-> db, exc |-> "AuthorizeException"]
    ELSE IF approved
    THEN LET applied == ApplyApproved(db, a)
         IN  IF applied.exc # "ok" THEN applied
             ELSE [db |-> LinkReview(applied.db, a,
                              ReviewAudit(db, a, u, PendingApprove)),
                   exc |-> "ok"]
    ELSE LET cascaded == IF db.audits[a].field = "id"
                         THEN RejectRelated(db, related_audits, u)
                         ELSE [db |-> db, exc |-> "ok"]
         IN  IF cascaded.exc # "ok" THEN cascaded
             ELSE [db |-> LinkReview(cascaded.db, a,
                              ReviewAudit(db, a, u, PendingReject)),
                   exc |-> "ok"]

\* the newest audit of the same model, model id, tenant and field
most_recent_audit(db, a) ==
    LET audit == db.audits[a]
        same == { b \in AuditPks(db) :
                    /\ db.audits[b].model = audit.model
                    /\ db.audits[b].model_id = audit.model_id
                    /\ db.audits[b].instance = audit.instance
                    /\ db.audits[b].field = audit.field }
    IN  CHOOSE b \in same : \A c \in same : c <= b

\* the revert of a review rejection on the live row
RevertRejected(db, a) ==
    LET audit == db.audits[a]
    IN  IF ~RowExists(db, audit.model, audit.model_id)
        THEN [db |-> db, exc |-> "ok"]
        ELSE IF audit.field = "id"
        THEN [db |-> DeleteRow(db, audit.model, audit.model_id), exc |-> "ok"]
        ELSE IF most_recent_audit(db, a) # a
        THEN [db |-> db, exc |-> "ok"]
        ELSE IF DeserializeRaises(db, audit.model, audit.field,
                                  audit.previous_value)
        THEN [db |-> db, exc |-> "ok"]
        ELSE ApplyAndSave(db, audit.model, audit.model_id, audit.field,
                          _deserialize_value(audit.previous_value))

approve_or_reject_existing_edit(db, a, u, approved) ==
    IF AlreadyResolved(db, a) THEN [db |-> db, exc |-> "Exception"]
    ELSE IF db.audits[a].requires_auth
    THEN [db |-> db, exc |-> "Exception"]
    ELSE IF ~_verify_user_can_apply_audit(db, a, u)
    THEN [db |-> db, exc |-> "AuthorizeException"]
    ELSE IF approved
    THEN [db |-> LinkReview(db, a, ReviewAudit(db, a, u, ReviewApprove)),
          exc |-> "ok"]
    ELSE LET reverted == RevertRejected(db, a)
         IN  IF reverted.exc # "ok" THEN reverted
             ELSE [db |-> LinkReview(reverted.db, a,
                              ReviewAudit(db, a, u, ReviewReject)),
                   exc |-> "ok"]

\* a faulty variant of ResolutionOrder: the audits are resolved as given
InputOrder(db, batch) == batch

\* the order in which approve_or_reject_audits_and_apply passes its audits
\* to approve_or_reject_audit_and_apply: the audits of another field than id
\* as they come, then the id audits of each model of model_order, then the
\* id audits that remain
ResolutionOrder(db, batch) ==
    LET IsId(a) == db.audits[a].field = "id"
        NotId(a) == db.audits[a].field # "id"
        IsPlot(a) == db.audits[a].model = "Plot"
        NotPlot(a) == db.audits[a].model # "Plot"
        IsTree(a) == db.audits[a].model = "Tree"
        NotTree(a) == db.audits[a].model # "Tree"
        id_audits == SelectSeq(batch, IsId)
        after_plot == SelectSeq(id_audits, NotPlot)
        remaining == SelectSeq(after_plot, NotTree)
    IN  SelectSeq(batch, NotId)
          \o SelectSeq(id_audits, IsPlot)
          \o SelectSeq(after_plot, IsTree)
          \o remaining

\* the queryset of get_related_audits has no order_by: its rows come by
\* ascending or by descending pk
InPkOrder(S, asc) ==
    CHOOSE s \in [1..Cardinality(S) -> S] :
        \A i, j \in DOMAIN s : i < j => IF asc THEN s[i] < s[j] ELSE s[i] > s[j]

RECURSIVE ResolveInOrder(_, _, _, _, _)

\* the calls of approve_or_reject_audit_and_apply, one after the other; the
\* first exception ends them
ResolveInOrder(db, order, u, approved, asc) ==
    IF order = << >> THEN [db |-> db, exc |-> "ok"]
    ELSE LET a == Head(order)
             related_audits ==
                 IF ~approved /\ db.audits[a].field = "id"
                 THEN InPkOrder(get_related_audits(db, a, FALSE), asc)
                 ELSE << >>
             out == approve_or_reject_audit_and_apply(db, a, u, approved,
                                                      related_audits)
         IN  IF out.exc # "ok" THEN out
             ELSE ResolveInOrder(out.db, Tail(order), u, approved, asc)

\* a faulty variant of commit_on_success: what was written before the
\* exception is kept
KeepPartial(db, out) == out

\* @transaction.commit_on_success: commit when the function returns, roll
\* back to the state before the call when it raises
commit_on_success(db, out) ==
    IF out.exc = "ok" THEN out ELSE [db |-> db, exc |-> out.exc]

approve_or_reject_audits_and_apply(db, batch, u, approved, asc) ==
    commit_on_success(db,
        ResolveInOrder(db, ResolutionOrder(db, batch), u, approved, asc))

----------------------------------------------------------------------------
(* The state machine *)

\* a call commits what it wrote, also when it raised part-way: the module
\* opens no transaction around a single save or a single resolution
Commit(db) ==
    /\ rows' = db.rows
    /\ audits' = db.audits
    /\ id_seq' = db.id_seq
    /\ post_save' = db.post_save
    /\ reputation' = db.reputation
    /\ UNCHANGED field_permissions

\* the number of audits of the ledger with an action
CountAction(db, action) ==
    Cardinality({ a \in 1..Len(db.audits) : db.audits[a].action = action })

WithinBounds(db) ==
    /\ Len(db.audits) <= MaxAudits
    /\ \A m \in Models : db.id_seq[m] <= SeedSeq[m] + MaxNewIds
    /\ CountAction(db, Update) <= MaxUpdates
    /\ CountAction(db, Delete) <= MaxDeletes
    /\ \A a \in DOMAIN db.post_save : db.post_save[a] <= MaxSignals

\* the audits that describe a change (not a reviewer's decision)
ChangeAudits(db) ==
    { a \in AuditPks(db) : db.audits[a].action \in {Insert, Update, Delete} }

\* the sequences that enumerate a finite set
Orders(S) ==
    { s \in [1..Cardinality(S) -> S] :
        \A i, j \in DOMAIN s : s[i] = s[j] => i = j }

\* the values of the tracked fields a caller can hold in memory: a field
\* left out is None, a ForeignKey is an instance of Plot that has an id
CallerVals(db, m) ==
    IF m = "Plot"
    THEN { [id |-> None, geom |-> g] : g \in FieldValues(m, "geom") }
    ELSE IF m = "Species"
    THEN { [id |-> None, genus |-> g] : g \in FieldValues(m, "genus") }
    ELSE { [id |-> None, plot |-> p, diameter |-> d] :
             p \in { r.vals.id : r \in { q \in db.rows : q.model = "Plot" } },
             d \in {None} \cup FieldValues(m, "diameter") }

\* Model(instance=..., field=...): a new instance has an empty snapshot
NewInstance(m, inst, vals) ==
    [model |-> m, instance |-> inst, vals |-> vals, prev |-> << >>,
     is_pending_insert |-> FALSE, masked |-> FALSE]

\* Model.objects.get(pk=...) followed by assignments to tracked fields: the
\* snapshot is the loaded row
LoadedInstance(r, vals) ==
    [model |-> r.model, instance |-> r.instance,
     vals |-> [vals EXCEPT !.id = r.vals.id], prev |-> r.vals,
     is_pending_insert |-> FALSE, masked |-> FALSE]

\* the new records a caller saves: a tree on the first plot, with or without
\* diameter, and a plot
NewInstances(db) ==
    { NewInstance("Tree", inst, vals) :
        inst \in Instances,
        vals \in { v \in CallerVals(db, "Tree") :
                     v.plot = 1 /\ v.diameter # 10 } }
    \cup { NewInstance("Plot", inst, vals) :
        inst \in Instances,
        vals \in { v \in CallerVals(db, "Plot") : v.geom = 1 } }

\* the loaded trees a caller edits and saves: one field is changed
EditedInstances(db) ==
    UNION { { LoadedInstance(r, vals) :
                vals \in { v \in CallerVals(db, r.model) :
                             /\ v.diameter # None
                             /\ (v.diameter = r.vals.diameter)
                                  # (v.plot = r.vals.plot) } } :
            r \in { q \in db.rows : q.model = "Tree" } }

\* the loaded plots a caller deletes
FreshInstances(db) ==
    { LoadedInstance(r, r.vals) : r \in { q \in db.rows : q.model = "Plot" } }

\* the instance the last call left behind
Retained(o) == IF o.model \in Models THEN {o} ELSE {}

\* obj is the instance left behind by the last call that returned
Retain(out) == obj' = IF out.exc = "ok" THEN out.obj ELSE obj

\* the tenants of the concurrent saves
Tenants == {1, 2}

Init ==
    /\ rows = SeedRows
    /\ audits = << >>
    /\ id_seq = SeedSeq
    /\ obj = NoObj
    /\ field_permissions = {}   \* the roles to set up have no grant yet
    /\ post_save = << >>
    \* user.get_instance_user(instance): the users in the tenants
    /\ reputation = [iuser \in AllUsers \X Tenants |-> 0]

SaveWithUser(o, u) ==
    LET out == Authorizable_save_with_user(DB, o, u)
    IN  /\ WithinBounds(out.db)
        /\ Commit(out.db)
        /\ Retain(out)

SaveWithoutVerifyingAuthorization(o, u) ==
    LET out == save_with_user_without_verifying_authorization(DB, o, u)
    IN  /\ WithinBounds(out.db)
        /\ Commit(out.db)
        /\ Retain(out)

DeleteWithUser(o, u) ==
    LET out == Authorizable_delete_with_user(DB, o, u)
    IN  /\ WithinBounds(out.db)
        /\ Commit(out.db)
        /\ Retain(out)

ApproveOrRejectAuditAndApply(a, u, approved) ==
    /\ a \in ChangeAudits(DB)
    /\ \E related_audits \in
            IF ~approved /\ audits[a].field = "id"
            THEN Orders(get_related_audits(DB, a, FALSE))
            ELSE { << >> } :
          LET out == approve_or_reject_audit_and_apply(DB, a, u, approved,
                                                       related_audits)
          IN  /\ WithinBounds(out.db)
              /\ Commit(out.db)
    /\ UNCHANGED obj

ApproveOrRejectExistingEdit(a, u, approved) ==
    /\ a \in ChangeAudits(DB)
    /\ LET out == approve_or_reject_existing_edit(DB, a, u, approved)
       IN  /\ WithinBounds(out.db)
           /\ Commit(out.db)
    /\ UNCHANGED obj

LowLevelSave(o) ==
    LET out == save(DB, o)
    IN  /\ WithinBounds(out.db)
        /\ Commit(out.db)
        /\ Retain(out)

LowLevelDelete(o) ==
    LET out == delete(DB, o)
    IN  /\ WithinBounds(out.db)
        /\ Commit(out.db)
        /\ Retain(out)

\* the workflow of inserts: new trees are saved and audits are reviewed
NextInsert ==
    \/ \E o \in NewInstances(DB) \cup Retained(obj), u \in Users :
          SaveWithUser(o, u)
    \/ \E o \in NewInstances(DB) \cup Retained(obj), u \in Users :
          SaveWithoutVerifyingAuthorization(o, u)
    \/ \E o \in NewInstances(DB) \cup Retained(obj) : LowLevelSave(o)
    \/ \E o \in Retained(obj) : LowLevelDelete(o)
    \/ \E a \in 1..MaxAudits, u \in Users, approved \in BOOLEAN :
          ApproveOrRejectAuditAndApply(a, u, approved)
    \/ \E a \in 1..MaxAudits, u \in Users, approved \in BOOLEAN :
          ApproveOrRejectExistingEdit(a, u, approved)

SpecInsert == Init /\ [][NextInsert]_vars

\* the workflow of updates: loaded trees are edited and saved, loaded plots
\* are deleted and audits are reviewed
NextUpdate ==
    \/ \E o \in EditedInstances(DB) \cup Retained(obj), u \in Users :
          SaveWithUser(o, u)
    \/ \E o \in FreshInstances(DB), u \in Users \ {"apprentice"} :
          DeleteWithUser(o, u)
    \/ \E a \in 1..MaxAudits, u \in Users, approved \in BOOLEAN :
          ApproveOrRejectAuditAndApply(a, u, approved)
    \/ \E a \in 1..MaxAudits, u \in Users, approved \in BOOLEAN :
          ApproveOrRejectExistingEdit(a, u, approved)

SpecUpdate == Init /\ [][NextUpdate]_vars

\* the loaded rows of every model type
LoadedInstances(db) == { LoadedInstance(r, r.vals) : r \in db.rows }

\* the loaded trees a caller edits and saves: one or two fields are changed
MultiEditedInstances(db) ==
    UNION { { LoadedInstance(r, vals) :
                vals \in { v \in CallerVals(db, r.model) :
                             /\ v.diameter # None
                             /\ [v EXCEPT !.id = r.vals.id] # r.vals } } :
            r \in { q \in db.rows : q.model = "Tree" } }

\* mask_unauthorized_fields changes the in-memory instance only
MaskUnauthorizedFields(o, u) ==
    LET out == mask_unauthorized_fields(o, u)
    IN  /\ Retain(out)
        /\ UNCHANGED <<rows, audits, id_seq, field_permissions, post_save,
                       reputation>>

\* the users of the workflow of the guards
GuardUsers == {"apprentice", "surveyor", "director"}

\* the loaded trees
LoadedTrees(db) == { o \in LoadedInstances(db) : o.model = "Tree" }

\* the workflow of the guards: loaded records are edited, masked, saved and
\* deleted by an apprentice, a surveyor and a director, through the tracked
\* and the low-level calls
NextGuard ==
    \/ \E o \in MultiEditedInstances(DB) \cup Retained(obj), u \in GuardUsers :
          SaveWithUser(o, u)
    \/ \E o \in Retained(obj), u \in GuardUsers :
          SaveWithoutVerifyingAuthorization(o, u)
    \/ \E o \in LoadedInstances(DB) \cup Retained(obj), u \in GuardUsers :
          DeleteWithUser(o, u)
    \/ \E o \in LoadedTrees(DB), u \in GuardUsers :
          MaskUnauthorizedFields(o, u)
    \/ \E o \in LoadedInstances(DB) \cup Retained(obj) : LowLevelSave(o)
    \/ \E o \in LoadedInstances(DB) \cup Retained(obj) : LowLevelDelete(o)

SpecGuard == Init /\ [][NextGuard]_vars

\* every workflow
\* the tree a caller holds after a write, with one tracked field assigned
\* anew; the snapshot is the one of the last write of this instance
HeldEdits(o) ==
    IF o.model = "Tree" /\ pk(o) # None
    THEN { [o EXCEPT !.vals = v] :
             v \in { w \in [id : {pk(o)}, plot : {1, 2},
                             diameter : FieldValues("Tree", "diameter")] :
                       (w.plot = o.vals.plot) # (w.diameter = o.vals.diameter) } }
    ELSE {}

\* a save_with_user through another in-memory instance of a record (another
\* request): the instance held by the first caller is not refreshed
SaveElsewhere(o, u) ==
    LET out == Authorizable_save_with_user(DB, o, u)
    IN  /\ out.exc = "ok"
        /\ WithinBounds(out.db)
        /\ Commit(out.db)
        /\ UNCHANGED obj

\* the users of the workflow of direct writes hold WRITE_DIRECTLY on every
\* field
DirectUsers == {"commander"}

\* the workflow of direct writes: records are created, the instance a
\* caller holds is edited and saved again, and other callers load, edit and
\* save trees
NextDirect ==
    \/ \E o \in NewInstances(DB) \cup Retained(obj), u \in DirectUsers :
          SaveWithUser(o, u)
    \/ \E o \in HeldEdits(obj), u \in DirectUsers : SaveWithUser(o, u)
    \/ \E o \in EditedInstances(DB), u \in DirectUsers : SaveElsewhere(o, u)

SpecDirect == Init /\ [][NextDirect]_vars

\* the bounds of the workflow of batches: the length of a batch, the size of
\* the ledger and the number of review audits in it
MaxBatch == 2

MaxBatchAudits == 6

MaxReviews == 2

WithinBatchBounds(db) ==
    /\ Len(db.audits) <= MaxBatchAudits
    /\ \A m \in Models : db.id_seq[m] <= SeedSeq[m] + MaxNewIds
    /\ CountAction(db, PendingApprove) + CountAction(db, PendingReject)
          <= MaxReviews

\* the new records of the workflow of batches: a plot, a tree and a species
BatchInstances(db) ==
    { o \in NewInstances(db) : o.model = "Tree" => o.vals.diameter = None }
    \cup { NewInstance("Species", inst, vals) :
             inst \in Instances, vals \in CallerVals(db, "Species") }

\* the sequences of up to MaxBatch distinct audits
Batches(S) ==
    { s \in UNION { [1..n -> S] : n \in 1..MaxBatch } :
        \A i, j \in DOMAIN s : s[i] = s[j] => i = j }

\* the users who review batches
BatchReviewers == {"commander", "officer"}

SavePending(o, u) ==
    LET out == Authorizable_save_with_user(DB, o, u)
    IN  /\ out.exc = "ok"
        /\ WithinBatchBounds(out.db)
        /\ Commit(out.db)
        /\ Retain(out)

\* the batch runs in a transaction: what it commits is the outcome of
\* commit_on_success
ApproveOrRejectAuditsAndApply(batch, u, approved, asc) ==
    LET out == approve_or_reject_audits_and_apply(DB, batch, u, approved, asc)
    IN  /\ WithinBatchBounds(out.db)
        /\ Commit(out.db)
        /\ UNCHANGED obj

\* the workflow of batches: an apprentice saves new records, which makes
\* pending inserts, and reviewers resolve batches of audits
NextBatch ==
    \/ \E o \in BatchInstances(DB) : SavePending(o, "apprentice")
    \/ \E batch \in Batches(ChangeAudits(DB)), u \in BatchReviewers,
          approved \in BOOLEAN, asc \in BOOLEAN :
          /\ approved => asc
          /\ ApproveOrRejectAuditsAndApply(batch, u, approved, asc)

SpecBatch == Init /\ [][NextBatch]_vars

\* the plot the caller holds, saved or pending
HeldPlot(o) == IF o.model = "Plot" /\ pk(o) # None THEN {pk(o)} ELSE {}

\* the new records of the workflow of parents: a plot, and a tree on a
\* persisted plot or on the plot the caller holds
ParentInstances(db, held) ==
    { o \in NewInstances(db) : o.model = "Plot" }
    \cup { NewInstance("Tree", inst,
                       [id |-> None, plot |-> p, diameter |-> d]) :
             inst \in Instances, p \in {1} \cup HeldPlot(held),
             d \in {None, 12} }

\* a single resolution, within the bounds of the workflow of batches
ResolveOne(a, u, approved) ==
    /\ a \in ChangeAudits(DB)
    /\ \E related_audits \in
            IF ~approved /\ audits[a].field = "id"
            THEN Orders(get_related_audits(DB, a, FALSE))
            ELSE { << >> } :
          LET out == approve_or_reject_audit_and_apply(DB, a, u, approved,
                                                       related_audits)
          IN  /\ WithinBatchBounds(out.db)
              /\ Commit(out.db)
    /\ UNCHANGED obj

\* the workflow of parents: an apprentice saves a new plot and new trees,
\* which makes pending inserts, and a commander resolves their audits one
\* by one
NextParent ==
    \/ \E o \in ParentInstances(DB, obj) : SavePending(o, "apprentice")
    \/ \E a \in 1..MaxBatchAudits, approved \in BOOLEAN :
          ResolveOne(a, "commander", approved)

SpecParent == Init /\ [][NextParent]_vars

\* the bounds of the workflow of concurrent saves: the identifiers drawn
\* from the sequence of a model and the size of the ledger
MaxReserved == 2

MaxReserveAudits == 6

WithinReserveBounds(db) ==
    /\ Len(db.audits) <= MaxReserveAudits
    /\ \A m \in Models : db.id_seq[m] <= SeedSeq[m] + MaxReserved

\* the users of the concurrent saves: one creates directly, one creates
\* pending inserts
ReserveUsers == {"commander", "apprentice"}

\* the new records of the concurrent saves
ReserveInstances ==
    { NewInstance("Tree", inst, [id |-> None, plot |-> 1, diameter |-> None])
        : inst \in Tenants }

\* a save_with_user has written its record or reserved its identifier and
\* has audits left to write
InFlight(o) == o.model = "InFlight"

\* the first half of Auditable.save_with_user: the record is written, or
\* the identifier is reserved; the audits of the save are still to be saved
BeginSave(o, u) ==
    LET out == Authorizable_save_with_user(DB, o, u)
    IN  /\ ~InFlight(obj)
        /\ out.exc = "ok"
        /\ WithinReserveBounds(out.db)
        /\ rows' = out.db.rows
        /\ id_seq' = out.db.id_seq
        /\ audits' = audits
        /\ UNCHANGED <<field_permissions, post_save, reputation>>
        /\ obj' = [model |-> "InFlight", saved |-> out.obj,
                   todo |-> SubSeq(out.db.audits, Len(audits) + 1,
                                   Len(out.db.audits))]

\* make_audit_and_save: the next audit of the save in flight is saved
WriteAudit ==
    /\ InFlight(obj)
    /\ LET db == Audit_save(DB, Head(obj.todo))
       IN  /\ audits' = db.audits
           /\ post_save' = db.post_save
           /\ reputation' = db.reputation
    /\ obj' = IF Len(obj.todo) = 1 THEN obj.saved
              ELSE [obj EXCEPT !.todo = Tail(obj.todo)]
    /\ UNCHANGED <<rows, id_seq, field_permissions>>

\* the save in flight ends before its next audit is saved (the store or the
\* process fails): what it has written stays, no transaction is open
FailBetweenWrites ==
    /\ InFlight(obj)
    /\ obj' = NoObj
    /\ UNCHANGED <<rows, audits, id_seq, field_permissions, post_save,
                   reputation>>

\* the save_with_user of another request, from its first to its last
\* write, while a save is in flight
SaveMeanwhile(o, u) ==
    LET out == Authorizable_save_with_user(DB, o, u)
    IN  /\ InFlight(obj)
        /\ out.exc = "ok"
        /\ WithinReserveBounds(
              [out.db EXCEPT !.audits = out.db.audits \o obj.todo])
        /\ Commit(out.db)
        /\ UNCHANGED obj

\* the identity audit of a pending insert is rejected by a reviewer
RejectPending(a, u) ==
    /\ a \in ChangeAudits(DB)
    /\ audits[a].requires_auth
    /\ audits[a].field = "id"
    /\ \E related_audits \in
            IF audits[a].field = "id"
            THEN Orders(get_related_audits(DB, a, FALSE))
            ELSE { << >> } :
          LET out == approve_or_reject_audit_and_apply(DB, a, u, FALSE,
                                                       related_audits)
              left == IF InFlight(obj) THEN obj.todo ELSE << >>
          IN  /\ out.exc = "ok"
              /\ WithinReserveBounds(
                    [out.db EXCEPT !.audits = out.db.audits \o left])
              /\ Commit(out.db)
    /\ UNCHANGED obj

\* the workflow of concurrent saves: one save goes write by write and may
\* fail between two writes, while other requests save and a reviewer
\* rejects pending inserts
NextReserve ==
    \/ \E o \in ReserveInstances, u \in ReserveUsers : BeginSave(o, u)
    \/ WriteAudit
    \/ FailBetweenWrites
    \/ \E o \in ReserveInstances, u \in ReserveUsers : SaveMeanwhile(o, u)
    \/ \E a \in 1..MaxReserveAudits : RejectPending(a, "commander")

SpecReserve == Init /\ [][NextReserve]_vars

\* save_with_user while the sequence call of a reservation fails: the
\* caller keeps the instance as the call left it
SaveWhileReservationFails(o, u) ==
    LET out == Authorizable_save_with_user_at(DB, o, u, TRUE)
    IN  /\ WithinBatchBounds(out.db)
        /\ Commit(out.db)
        /\ obj' = out.obj

\* the workflow of retries: new plots and trees are saved by an apprentice,
\* an officer and a commander, the reservation fails or not, and the
\* instance a call left behind is saved again
NextRetry ==
    \/ \E o \in NewInstances(DB) \cup Retained(obj), u \in Users :
          SaveWhileReservationFails(o, u)
    \/ \E o \in NewInstances(DB) \cup Retained(obj), u \in Users :
          SavePending(o, u)

SpecRetry == Init /\ [][NextRetry]_vars

----------------------------------------------------------------------------
(* The FieldPermission table of the roles that are being set up *)

\* the table holds at most MaxGrants rows
MaxGrants == 7

\* Role.objects.filter(instance=instance), in the order of the query
Role_objects_filter(inst) == <<"editor", "viewer">>

\* role.instance
role_instance(role) == 1

\* leaf_subclasses(Authorizable)
AuthorizableModels == <<"Plot", "Tree">>

\* the columns of unique_together
PermKey(p) ==
    [model_name |-> p.model_name, field_name |-> p.field_name,
     role |-> p.role, instance |-> p.instance]

FieldPermission(id, key, level) ==
    [id |-> id, model_name |-> key.model_name, field_name |-> key.field_name,
     role |-> key.role, instance |-> key.instance, permission_level |-> level]

\* a faulty variant of unique_together: no constraint
NotUnique(table, id, key) == FALSE

\* Meta.unique_together: another row of the table holds the key
unique_together(table, id, key) ==
    \E q \in table : q.id # id /\ PermKey(q) = key

\* the INSERT of one row: the serial column gives the id, the unique index
\* refuses a second row of a key
InsertPermission(table, key, level) ==
    IF unique_together(table, None, key)
    THEN [table |-> table, exc |-> "IntegrityError"]
    ELSE [table |-> table \cup
                      {FieldPermission(Cardinality(table) + 1, key, level)},
          exc |-> "ok"]

\* FieldPermission.clean: the model type is Authorizable and has the field
clean(p) ==
    /\ \E i \in DOMAIN AuthorizableModels : AuthorizableModels[i] = p.model_name
    /\ p.field_name \in tracked_fields(p.model_name)

\* FieldPermission.save: full_clean (clean and validate_unique), then the
\* INSERT of a new row or the UPDATE of the row of a loaded one
FieldPermission_save(table, p) ==
    IF ~clean(p) \/ unique_together(table, p.id, PermKey(p))
    THEN [table |-> table, exc |-> "ValidationError"]
    ELSE IF p.id = None
         THEN InsertPermission(table, PermKey(p), p.permission_level)
         ELSE [table |-> { q \in table : q.id # p.id } \cup {p},
               exc |-> "ok"]

\* the perms list of _add_default_permissions: an entry for every tracked
\* field of every model, with the tenant of the role
RECURSIVE PermsOf(_, _)
PermsOf(models, role) ==
    IF models = << >> THEN << >>
    ELSE LET fields == Ordered(tracked_fields(Head(models)))
         IN  [i \in 1..Len(fields) |->
                 [model_name |-> Head(models), field_name |-> fields[i],
                  role |-> role, instance |-> role_instance(role)]]
             \o PermsOf(Tail(models), role)

\* FieldPermission.objects.get_or_create for each entry of perms, one after
\* the other
RECURSIVE GetOrCreateEach(_, _, _)
GetOrCreateEach(table, perms, level) ==
    IF perms = << >> THEN [table |-> table, exc |-> "ok"]
    ELSE LET found == { q \in table : PermKey(q) = Head(perms) }
         IN  IF Cardinality(found) > 1
             THEN [table |-> table, exc |-> "MultipleObjectsReturned"]
             ELSE IF found # {}
             THEN GetOrCreateEach(table, Tail(perms), level)
             ELSE LET out == InsertPermission(table, Head(perms), level)
                  IN  IF out.exc # "ok" THEN out
                      ELSE GetOrCreateEach(out.table, Tail(perms), level)

\* FieldPermission.objects.bulk_create: one INSERT of all the rows
bulk_create(table, perms, level) ==
    IF \/ \E i \in DOMAIN perms : unique_together(table, None, perms[i])
       \/ \E i, j \in DOMAIN perms :
             /\ i # j
             /\ unique_together({FieldPermission(i, perms[i], level)}, j,
                                 perms[j])
    THEN [table |-> table, exc |-> "IntegrityError"]
    ELSE [table |-> table \cup
                      { FieldPermission(Cardinality(table) + i, perms[i], level) :
                          i \in DOMAIN perms },
          exc |-> "ok"]

_add_default_permissions(table, models, role, instance) ==
    LET perms == PermsOf(models, role)
        existing == { q \in table : q.role = role /\ q.instance = instance }
    IN  IF existing # {}
        THEN GetOrCreateEach(table, perms, default_permission(role))
        ELSE bulk_create(table, perms, default_permission(role))

\* add_default_permissions: _add_default_permissions for each role
RECURSIVE add_default_permissions(_, _, _, _)
add_default_permissions(table, instance, roles, models) ==
    IF roles = << >> THEN [table |-> table, exc |-> "ok"]
    ELSE LET out == _add_default_permissions(table, models, Head(roles),
                                             instance)
         IN  IF out.exc # "ok" THEN out
             ELSE add_default_permissions(out.table, instance, Tail(roles),
                                          models)

\* the roles and the models a caller passes to add_default_permissions:
\* all of them by default, or some of them
RolesArguments(inst) ==
    {Role_objects_filter(inst), <<"editor">>, <<"viewer">>}

ModelsArguments == {AuthorizableModels, <<"Plot">>, <<"Tree">>}

\* the grants a caller writes: a new grant of the editor, with a key and a
\* level, among them a grant of a field the model type does not have, and a
\* loaded grant with another level
NewGrants ==
    { FieldPermission(None,
                      [model_name |-> k[1], field_name |-> k[2],
                       role |-> "editor", instance |-> role_instance("editor")],
                      level) :
        k \in {<<"Plot", "geom">>, <<"Tree", "plot">>, <<"Plot", "plot">>},
        level \in {READ_ONLY, WRITE_DIRECTLY} }

ChangedGrants(table) ==
    { [q EXCEPT !.permission_level = level] :
        q \in { r \in table : r.role = "editor" /\ r.model_name = "Tree" },
        level \in {READ_ONLY, WRITE_DIRECTLY} }

AddDefaultPermissions(inst, roles, models) ==
    LET out == add_default_permissions(field_permissions, inst, roles, models)
    IN  /\ Cardinality(out.table) <= MaxGrants
        /\ field_permissions' = out.table
        /\ UNCHANGED <<rows, audits, id_seq, obj, post_save, reputation>>

GrantWrite(p) ==
    LET out == FieldPermission_save(field_permissions, p)
    IN  /\ Cardinality(out.table) <= MaxGrants
        /\ field_permissions' = out.table
        /\ UNCHANGED <<rows, audits, id_seq, obj, post_save, reputation>>

\* the workflow of the grants: the permissions of the roles of a tenant are
\* filled with the defaults, and grants are written
NextGrant ==
    \/ \E inst \in Instances, models \in ModelsArguments :
          \E roles \in RolesArguments(inst) :
              AddDefaultPermissions(inst, roles, models)
    \/ \E p \in NewGrants \cup ChangedGrants(field_permissions) :
          GrantWrite(p)

SpecGrant == Init /\ [][NextGrant]_vars

----------------------------------------------------------------------------
(* Concurrent reviews of one audit *)

\* the copy each reviewer holds: a pk and the row as it was read, or nothing
CopiesOf(o) ==
    IF o.model = "Loaded" THEN o.copies ELSE [r \in BatchReviewers |-> << >>]

\* approve_or_reject_audit_and_apply on an Audit instance in memory: the
\* guard looks at the ref of the instance and audit.save() at the end
\* writes every column of the instance; a call that raises has not saved it
approve_or_reject_loaded(db, a, audit, u, approved, related_audits) ==
    LET out == approve_or_reject_audit_and_apply(
                   [db EXCEPT !.audits[a] = audit], a, u, approved,
                   related_audits)
    IN  IF out.exc = "ok" THEN out
        ELSE [out EXCEPT !.db.audits[a] = db.audits[a]]

SaveForReview(o, u) ==
    LET out == Authorizable_save_with_user(DB, o, u)
    IN  /\ out.exc = "ok"
        /\ WithinBounds(out.db)
        /\ Commit(out.db)
        /\ UNCHANGED obj

\* Audit.objects.get(pk=a) in the request of a reviewer
LoadAudit(r, a) ==
    /\ a \in ChangeAudits(DB)
    /\ audits[a].requires_auth
    /\ CopiesOf(obj)[r] = << >>
    /\ obj' = [model |-> "Loaded",
               copies |-> [CopiesOf(obj) EXCEPT
                              ![r] = <<[pk |-> a, row |-> audits[a]]>>]]
    /\ UNCHANGED <<rows, audits, id_seq, field_permissions, post_save,
                   reputation>>

\* the reviewer resolves the audit they hold; the request ends
ResolveLoaded(r, approved) ==
    /\ CopiesOf(obj)[r] # << >>
    /\ LET copy == CopiesOf(obj)[r][1]
       IN  \E related_audits \in
               IF ~approved /\ copy.row.field = "id"
               THEN Orders(get_related_audits(DB, copy.pk, FALSE))
               ELSE { << >> } :
             LET out == approve_or_reject_loaded(DB, copy.pk, copy.row, r,
                                                 approved, related_audits)
             IN  /\ WithinBounds(out.db)
                 /\ Commit(out.db)
    /\ obj' = [model |-> "Loaded",
               copies |-> [CopiesOf(obj) EXCEPT ![r] = << >>]]

\* the workflow of concurrent reviews: an apprentice changes the diameter
\* of a loaded tree or creates a tree, which makes pending audits, and two
\* reviewers, each in a request of their own, load audits and resolve what
\* they loaded
NextRace ==
    \/ \E o \in { e \in EditedInstances(DB) : e.vals.plot = e.prev.plot }
                  \cup { n \in NewInstances(DB) : n.model = "Tree" } :
          SaveForReview(o, "apprentice")
    \/ \E r \in BatchReviewers, a \in 1..MaxAudits : LoadAudit(r, a)
    \/ \E r \in BatchReviewers, approved \in BOOLEAN :
          ResolveLoaded(r, approved)

SpecRace == Init /\ [][NextRace]_vars

----------------------------------------------------------------------------
(* ecobenefits: the basis and the benefits of several feature classes are
   combined group by group *)

\* the counters do not grow beyond MaxCount, the values of benefits not
\* beyond MaxValue and their currencies not beyond MaxCurrency
MaxCount == 3

MaxValue == 2

MaxCurrency == 2

\* the benefit groups
BenefitGroups == {"group1", "group2"}

\* the dicts with keys in K and values in V
Dicts(K, V) == UNION { [D -> V] : D \in SUBSET K }

\* a faulty variant of _sum_dict: a counter of both sides takes the new value
TakesSecond(d1, d2) ==
    IF d1 = << >> THEN d2
    ELSE IF d2 = << >> THEN d1
    ELSE <<[k \in DOMAIN d1[1] \cup DOMAIN d2[1] |->
              IF k \in DOMAIN d2[1] THEN d2[1][k] ELSE d1[1][k]]>>

\* _sum_dict: None is the empty sequence, a dict a sequence of one
_sum_dict(d1, d2) ==
    IF d1 = << >> THEN d2
    ELSE IF d2 = << >> THEN d1
    ELSE <<[k \in DOMAIN d1[1] \cup DOMAIN d2[1] |->
              IF k \in DOMAIN d1[1] /\ k \notin DOMAIN d2[1] THEN d1[1][k]
              ELSE IF k \in DOMAIN d2[1] /\ k \notin DOMAIN d1[1]
              THEN d2[1][k]
              ELSE d1[1][k] + d2[1][k]]>>

\* _combine_benefit_basis: the loop over the groups of new_basis_groups,
\* each of which sets its own key of basis; basis.get(basis_group) is
\* nothing or one dict
_combine_benefit_basis(basis, new_basis_groups) ==
    [basis_group \in DOMAIN basis \cup DOMAIN new_basis_groups |->
        IF basis_group \in DOMAIN new_basis_groups
        THEN _sum_dict(IF basis_group \in DOMAIN basis
                       THEN <<basis[basis_group]>> ELSE << >>,
                       <<new_basis_groups[basis_group]>>)[1]
        ELSE basis[basis_group]]

\* the basis groups a feature class reports, with the counters of a group
NewBasisGroups ==
    Dicts(BenefitGroups,
          Dicts({"n_objects_used", "n_objects_discarded"}, 1..2))

\* the benefit names of a group
BenefitKeys(group) ==
    IF group = "group1" THEN {"benefit1", "benefit2"} ELSE {"benefit1"}

\* a benefit: a value, and a currency that is left out, None or an amount
Benefits(values, currencies) ==
    [value : values]
        \cup [value : values, currency : {None} \cup currencies]

\* a faulty variant of the currency merge: the new currency replaces the
\* existing one
TakesNewCurrency(existing_benefit, ft_benefit) ==
    IF "currency" \in DOMAIN ft_benefit THEN ft_benefit.currency ELSE None

\* the currency of two merged benefits
MergedCurrency(existing_benefit, ft_benefit) ==
    LET existing_currency ==
            IF "currency" \in DOMAIN existing_benefit
            THEN existing_benefit.currency ELSE None
        ft_currency ==
            IF "currency" \in DOMAIN ft_benefit
            THEN ft_benefit.currency ELSE None
    IN  IF existing_currency = None THEN ft_currency
        ELSE IF ft_currency # None THEN existing_currency + ft_currency
        ELSE existing_currency

\* the inner loop: the benefits of one group of new_benefit_groups; for a
\* key the group already holds the values are added and the currency is
\* set
CombineGroup(bgroup, ft_benefits) ==
    [ft_benefit_key \in DOMAIN bgroup \cup DOMAIN ft_benefits |->
        IF ft_benefit_key \notin DOMAIN ft_benefits
        THEN bgroup[ft_benefit_key]
        ELSE IF ft_benefit_key \in DOMAIN bgroup
        THEN LET existing_benefit == bgroup[ft_benefit_key]
                 ft_benefit == ft_benefits[ft_benefit_key]
             IN  [j \in DOMAIN existing_benefit \cup {"currency"} |->
                     IF j = "currency"
                     THEN MergedCurrency(existing_benefit, ft_benefit)
                     ELSE IF j = "value"
                     THEN existing_benefit.value + ft_benefit.value
                     ELSE existing_benefit[j]]
        ELSE ft_benefits[ft_benefit_key]]

\* _combine_grouped_benefits: a group of benefits is created when the
\* first benefit of the group is met, so a group without benefits adds
\* nothing
_combine_grouped_benefits(benefits, new_benefit_groups) ==
    LET groups == { group \in DOMAIN new_benefit_groups :
                      DOMAIN new_benefit_groups[group] # {} }
    IN  [group \in DOMAIN benefits \cup groups |->
            IF group \notin groups THEN benefits[group]
            ELSE CombineGroup(
                    IF group \in DOMAIN benefits THEN benefits[group]
                    ELSE << >>,
                    new_benefit_groups[group])]

\* the benefit groups a feature class reports
NewBenefitGroups ==
    UNION { { new \in [D -> Dicts(BenefitKeys("group1"),
                                  Benefits({1}, {1}))] :
                \A group \in D :
                    DOMAIN new[group] \subseteq BenefitKeys(group) } :
            D \in SUBSET BenefitGroups }

\* the basis, or the benefits, the caller combines into
BasisOf(o) == IF o.model = "Combined" THEN o.basis ELSE << >>

BenefitsOf(o) == IF o.model = "Combined" THEN o.benefits ELSE << >>

CombineBenefitBasis(new_basis_groups) ==
    LET basis == _combine_benefit_basis(BasisOf(obj), new_basis_groups)
    IN  /\ \A g \in DOMAIN basis : \A k \in DOMAIN basis[g] :
               basis[g][k] <= MaxCount
        /\ obj' = [model |-> "Combined", basis |-> basis,
                   benefits |-> BenefitsOf(obj)]
        /\ UNCHANGED <<rows, audits, id_seq, field_permissions, post_save,
                       reputation>>

CombineGroupedBenefits(new_benefit_groups) ==
    LET benefits == _combine_grouped_benefits(BenefitsOf(obj),
                                              new_benefit_groups)
    IN  /\ \A g \in DOMAIN benefits : \A k \in DOMAIN benefits[g] :
               /\ benefits[g][k].value <= MaxValue
               /\ "currency" \in DOMAIN benefits[g][k]
                     => benefits[g][k].currency <= MaxCurrency
        /\ obj' = [model |-> "Combined", basis |-> BasisOf(obj),
                   benefits |-> benefits]
        /\ UNCHANGED <<rows, audits, id_seq, field_permissions, post_save,
                       reputation>>

\* the basis of the feature classes is combined, class after class
NextBasis ==
    \E new_basis_groups \in NewBasisGroups :
        CombineBenefitBasis(new_basis_groups)

SpecBasis == Init /\ [][NextBasis]_vars

\* the benefits of the feature classes are combined, class after class
NextBenefits ==
    \E new_benefit_groups \in NewBenefitGroups :
        CombineGroupedBenefits(new_benefit_groups)

SpecBenefits == Init /\ [][NextBenefits]_vars

Next ==
    NextInsert \/ NextUpdate \/ NextGuard \/ NextDirect \/ NextBatch
        \/ NextBasis \/ NextBenefits
        \/ NextParent \/ NextReserve \/ NextRetry \/ NextGrant \/ NextRace

Spec == Init /\ [][Next]_vars

----------------------------------------------------------------------------
(* Properties *)

\* the review audits: a reviewer's decisions
IsReview(x) ==
    x.action \in {PendingApprove, PendingReject, ReviewApprove, ReviewReject}

\* two audits describe the same field of the same record
SameField(x, y) ==
    /\ x.model = y.model
    /\ x.model_id = y.model_id
    /\ x.instance = y.instance
    /\ x.field = y.field

\* two audits belong to the same record
SameRecord(x, y) ==
    /\ x.model = y.model
    /\ x.model_id = y.model_id
    /\ x.instance = y.instance

\* a review audit that no audit refers to
Orphaned(r) ==
    /\ r \in 1..Len(audits)
    /\ IsReview(audits[r])
    /\ \A a \in 1..Len(audits) : audits[a].ref # r

ApplyOutcomes(a, u, approved) ==
    { approve_or_reject_audit_and_apply(DB, a, u, approved, related_audits) :
        related_audits \in
            IF ~approved /\ audits[a].field = "id"
            THEN Orders(get_related_audits(DB, a, FALSE))
            ELSE { << >> } }

\* a call failed with an error and changed nothing
FailedUnchanged(out, a) ==
    /\ out.exc = "Exception"
    /\ Len(out.db.audits) = Len(audits)
    /\ out.db.audits[a].ref = audits[a].ref
    /\ out.db.rows = rows

\* C2: approve_or_reject_audit_and_apply and approve_or_reject_existing_edit
\* on an Audit whose ref is already set fail with an error, write no review
\* audit, leave the ref of the audit and the live records unchanged.
C2_ResolvedAuditIsRefused ==
    \A a \in AuditPks(DB), u \in Users, approved \in BOOLEAN :
        audits[a].ref # None =>
            /\ \A out \in ApplyOutcomes(a, u, approved) :
                  FailedUnchanged(out, a)
            /\ FailedUnchanged(
                  approve_or_reject_existing_edit(DB, a, u, approved), a)

\* C2, reached: a resolved audit that its reviewer tries to resolve again
C2_Reached ==
    \E a \in AuditPks(DB) :
        /\ audits[a].ref # None
        /\ audits[a].requires_auth
        /\ audits[audits[a].ref].action = PendingApprove
        /\ \A out \in ApplyOutcomes(a, audits[audits[a].ref].user, FALSE) :
              out.exc = "Exception"

\* the audits a call appended to the ledger
Written(out) ==
    { out.db.audits[i] : i \in (Len(audits) + 1)..Len(out.db.audits) }

\* the persisted value of a field of a record
Persisted(db, m, model_id, f) == objects_get(db, m, model_id).vals[f]

\* C3: when a user whose permission on a field is exactly WRITE_WITH_AUDIT
\* changes that field on an existing record and saves, exactly one Audit is
\* written for the field (Update, previous = old value, current = new value,
\* requires_auth, ref null) and both the in-memory record and the persisted
\* record keep the old value of the field.
C3_PendingUpdateKeepsOldValue ==
    \A o \in EditedInstances(DB), u \in Users :
        \A f \in _updated_fields(o) :
            LET out == Authorizable_save_with_user(DB, o, u)
            IN  (/\ permission_level(u, o.instance, o.model, f)
                       = WRITE_WITH_AUDIT
                 /\ out.exc = "ok") =>
                    /\ { x \in Written(out) : x.field = f }
                         = { Audit(o.model, pk(o), o.instance, f,
                                   Serialize(o.prev[f]), Serialize(o.vals[f]),
                                   u, Update, TRUE) }
                    /\ Cardinality({ i \in (Len(audits) + 1)
                                            ..Len(out.db.audits) :
                                       out.db.audits[i].field = f }) = 1
                    /\ out.obj.vals[f] = o.prev[f]
                    /\ Persisted(out.db, o.model, pk(o), f) = o.prev[f]

\* the audit is pending and has not been approved (in the next state)
UnapprovedNext(a) ==
    /\ audits'[a].requires_auth
    /\ audits'[a].action \in {Insert, Update}
    /\ audits'[a].field # "id"
    /\ \/ audits'[a].ref = None
       \/ audits'[audits'[a].ref].action # PendingApprove

\* the step writes audits and makes the persisted field of the record of
\* audit a equal to the current value of the audit
BecomesCurrent(a) ==
    LET x == audits'[a]
        v == _deserialize_value(x.current_value)
    IN  /\ Len(audits') > Len(audits)
        /\ RowExists([rows |-> rows'], x.model, x.model_id)
        /\ Persisted([rows |-> rows'], x.model, x.model_id, x.field) = v
        /\ \/ ~RowExists(DB, x.model, x.model_id)
           \/ Persisted(DB, x.model, x.model_id, x.field) # v

\* the step writes another audit that accounts for that value: a direct
\* write or an approval of the same value, or the revert of a rejected edit
OtherwiseWritten(a) ==
    \E b \in (Len(audits) + 1)..Len(audits') :
        /\ b # a
        /\ SameField(audits'[b], audits'[a])
        /\ \/ /\ audits'[b].action \in {Insert, Update}
              /\ ~audits'[b].requires_auth
              /\ audits'[b].current_value = audits'[a].current_value
           \/ /\ audits'[b].action = PendingApprove
              /\ audits'[b].current_value = audits'[a].current_value
           \/ /\ audits'[b].action = ReviewReject
              /\ audits'[b].previous_value = audits'[a].current_value

\* C4: over any sequence of saves, approvals and rejections, a change
\* recorded as a pending audit (requires_auth) is not put into the persisted
\* record's field by any step unless the ref of that audit points to a
\* PendingApprove review audit: neither the save that records it, nor its
\* rejection, nor the resolution of other audits applies it.
C4_PendingChangeNotApplied ==
    [][\A a \in 1..Len(audits') :
          UnapprovedNext(a) => ~(BecomesCurrent(a) /\ ~OtherwiseWritten(a))]_vars

\* a pending update audit of an existing record that a reviewer may approve
ApprovablePendingUpdate(a, u) ==
    /\ audits[a].action = Update
    /\ audits[a].requires_auth
    /\ audits[a].ref = None
    /\ RowExists(DB, audits[a].model, audits[a].model_id)
    /\ _verify_user_can_apply_audit(DB, a, u)

\* C5: when a reviewer holding WRITE_DIRECTLY on the audited field approves
\* a pending update audit of an existing record, a review Audit with action
\* PendingApprove (same model, model id, tenant, field, previous and current
\* values; user = reviewer) is written, the ref of the pending audit is set
\* to it, and the persisted field equals the current value of the audit.
C5_ApprovedUpdateIsApplied ==
    \A a \in AuditPks(DB), u \in Users :
        ApprovablePendingUpdate(a, u) =>
            LET x == audits[a]
                out == approve_or_reject_audit_and_apply(DB, a, u, TRUE, << >>)
                review_pk == Len(audits) + 1
            IN  /\ out.exc = "ok"
                /\ Len(out.db.audits) = review_pk
                /\ out.db.audits[review_pk]
                     = Audit(x.model, x.model_id, x.instance, x.field,
                             x.previous_value, x.current_value, u,
                             PendingApprove, FALSE)
                /\ out.db.audits[a].ref = review_pk
                /\ Persisted(out.db, x.model, x.model_id, x.field)
                     = _deserialize_value(x.current_value)

\* the user can write some required field neither directly nor with audit
LacksCreatePermission(o, u) ==
    \E f \in _fields_required_for_create(o.model) :
        ~allows_writes(permission_level(u, o.instance, o.model, f))

\* C6: if a user lacks both WRITE_DIRECTLY and WRITE_WITH_AUDIT on at least
\* one required-for-create field, saving a new record fails with an
\* authorization error, writes no Audit rows, persists no record and
\* reserves no identifier (the primary key of the record stays null).
C6_UnauthorizedCreateIsRefused ==
    \A o \in NewInstances(DB), u \in Users :
        LacksCreatePermission(o, u) =>
            LET out == Authorizable_save_with_user(DB, o, u)
            IN  /\ out.exc = "AuthorizeException"
                /\ out.db.audits = audits
                /\ out.db.rows = rows
                /\ out.db.id_seq = id_seq
                /\ pk(out.obj) = None
                /\ ~out.obj.is_pending_insert

\* C6, reached: with audits in the ledger, a user without write permission
\* on a required field saves a new record and is refused
C6_Reached ==
    /\ Len(audits) > 0
    /\ \E o \in NewInstances(DB), u \in Users :
          /\ LacksCreatePermission(o, u)
          /\ Authorizable_save_with_user(DB, o, u).exc = "AuthorizeException"

\* the user holds exactly WRITE_WITH_AUDIT on every required field
OnlyAuditedCreatePermission(o, u) ==
    \A f \in _fields_required_for_create(o.model) :
        permission_level(u, o.instance, o.model, f) = WRITE_WITH_AUDIT

\* the fields of a new record the caller supplied
Supplied(o) == { f \in DOMAIN o.vals : f # "id" /\ o.vals[f] # None }

\* C7: when a user holding only WRITE_WITH_AUDIT on all required-for-create
\* fields saves a new record, the record receives a reserved identifier, is
\* marked as a pending insert and is not persisted, and the ledger gains
\* exactly one pending identity Audit (field id, previous null, current =
\* the reserved identifier, action Insert) plus exactly one pending Audit
\* per supplied field, each with requires_auth = true and ref = null.
C7_PendingInsertWritesPendingAudits ==
    \A o \in NewInstances(DB), u \in Users :
        OnlyAuditedCreatePermission(o, u) =>
            LET out == Authorizable_save_with_user(DB, o, u)
                model_id == nextval(DB, o.model)
            IN  /\ out.exc = "ok"
                /\ pk(out.obj) = model_id
                /\ out.obj.is_pending_insert
                /\ out.db.rows = rows
                /\ ~RowExists(out.db, o.model, model_id)
                /\ Len(out.db.audits)
                     = Len(audits) + 1 + Cardinality(Supplied(o))
                /\ Written(out)
                     = { Audit(o.model, model_id, o.instance, "id",
                               Serialize(None), Serialize(model_id), u,
                               Insert, TRUE) }
                       \cup { Audit(o.model, model_id, o.instance, f,
                                    Serialize(None), Serialize(o.vals[f]), u,
                                    Insert, TRUE) : f \in Supplied(o) }

\* the identity audit of a pending insert
PendingIdentity(a) ==
    /\ audits[a].action = Insert
    /\ audits[a].field = "id"
    /\ audits[a].requires_auth

\* the audit was resolved with a review audit of an action
ResolvedAs(a, action) ==
    /\ audits[a].ref # None
    /\ audits[audits[a].ref].action = action

C9_SiblingsOfRejectedIdentityAreRefused ==
    \A a \in AuditPks(DB) :
        (PendingIdentity(a) /\ ResolvedAs(a, PendingReject)) =>
            \A b \in get_related_audits(DB, a, FALSE), u \in Users :
                LET applied == approve_or_reject_audit_and_apply(
                                  DB, b, u, TRUE, << >>)
                    edited == approve_or_reject_existing_edit(DB, b, u, TRUE)
                IN  /\ applied.exc # "ok"
                    /\ applied.db = DB
                    /\ edited.exc # "ok"
                    /\ edited.db = DB

\* C9, reached: the identity audit was rejected after a sibling had been
\* approved, and the approval of that sibling is refused
C9_Reached ==
    \E a \in AuditPks(DB), r \in AuditPks(DB) :
        /\ PendingIdentity(a)
        /\ ResolvedAs(a, PendingReject)
        /\ Orphaned(r)
        /\ audits[r].action = PendingApprove
        /\ \E b \in get_related_audits(DB, a, FALSE) :
              /\ SameField(audits[b], audits[r])
              /\ approve_or_reject_audit_and_apply(
                    DB, b, audits[r].user, TRUE, << >>).exc = "Exception"

\* an unresolved field audit of a pending-insert batch whose identity audit
\* is unresolved, and a reviewer who may resolve it
ApprovableBeforeIdentity(b, u) ==
    /\ audits[b].action = Insert
    /\ audits[b].field # "id"
    /\ audits[b].ref = None
    /\ _verify_user_can_apply_audit(DB, b, u)
    /\ \E a \in get_related_audits(DB, b, FALSE) :
          PendingIdentity(a) /\ audits[a].ref = None

\* the approval of a field audit before the identity audit succeeds, resolves
\* the audit and creates no record
FieldApprovalCreatesNoRecord ==
    \A b \in AuditPks(DB), u \in Users :
        ApprovableBeforeIdentity(b, u) =>
            LET out == approve_or_reject_audit_and_apply(DB, b, u, TRUE, << >>)
            IN  /\ out.exc = "ok"
                /\ out.db.audits[b].ref = Len(audits) + 1
                /\ out.db.audits[Len(audits) + 1].action = PendingApprove
                /\ out.db.rows = rows

\* a record with a reserved identifier appears only in the step that
\* approves the identity audit
MaterializedByIdentityApproval ==
    \A a \in AuditPks(DB) :
        (/\ PendingIdentity(a)
         /\ ~RowExists(DB, audits[a].model, audits[a].model_id)
         /\ RowExists([rows |-> rows'], audits[a].model, audits[a].model_id))
        => /\ audits[a].ref = None
           /\ audits'[a].ref > Len(audits)
           /\ audits'[audits'[a].ref].action = PendingApprove

\* C10: approving the field audits of a pending-insert batch before its
\* identity audit succeeds and resolves them but creates no record; a record
\* with the reserved identifier comes into existence only in the step that
\* approves the identity audit itself, which (the ref of the identity audit
\* being null before that step and set after it) happens at most once.
C10_RecordOnlyByIdentityApproval ==
    /\ []FieldApprovalCreatesNoRecord
    /\ [][MaterializedByIdentityApproval]_vars

\* C10, reached: a field audit was approved first, then the identity audit,
\* and the record exists with the approved value
C10_Reached ==
    \E a \in AuditPks(DB), b \in AuditPks(DB) :
        /\ PendingIdentity(a)
        /\ ResolvedAs(a, PendingApprove)
        /\ b \in get_related_audits(DB, a, TRUE)
        /\ audits[b].ref < audits[a].ref
        /\ RowExists(DB, audits[a].model, audits[a].model_id)
        /\ Serialize(Persisted(DB, audits[b].model, audits[b].model_id,
                               audits[b].field)) = audits[b].current_value

\* the level the user holds on a field of the record (NONE without a grant)
LevelOn(o, u, f) ==
    IF HasGrant(u, o.instance, o.model, f)
    THEN permission_level(u, o.instance, o.model, f)
    ELSE NONE

\* the diff of the record holds a field the user cannot write
DiffHoldsForbiddenField(o, u) ==
    \E f \in _updated_fields(o) : ~allows_writes(LevelOn(o, u, f))

\* C11: when an already-existing record is saved and its diff contains a
\* field on which the user has neither WRITE_WITH_AUDIT nor WRITE_DIRECTLY,
\* the whole save aborts with an authorization error: no field of the
\* persisted record changes and no Audit row is written.
C11_ForbiddenFieldAbortsSave ==
    \A o \in MultiEditedInstances(DB), u \in GuardUsers :
        DiffHoldsForbiddenField(o, u) =>
            LET out == Authorizable_save_with_user(DB, o, u)
            IN  /\ out.exc = "AuthorizeException"
                /\ out.db.rows = rows
                /\ out.db.audits = audits
                /\ out.db.id_seq = id_seq

\* C11, reached: with audits in the ledger, a save whose diff holds a field
\* the user writes directly and a field the user cannot write is refused
C11_Reached ==
    /\ Len(audits) > 0
    /\ \E o \in MultiEditedInstances(DB), u \in GuardUsers :
          /\ DiffHoldsForbiddenField(o, u)
          /\ \E f \in _updated_fields(o) : LevelOn(o, u, f) = WRITE_DIRECTLY
          /\ Authorizable_save_with_user(DB, o, u).exc = "AuthorizeException"

\* C12: for every resolution (approve or reject, pending or after the fact,
\* the cascaded resolutions of the siblings of a rejected identity audit
\* included): if the reviewer does not hold WRITE_DIRECTLY on the audited
\* field, the resolution fails with an authorization error, and a resolution
\* that fails with an authorization error changes no state: no review audit
\* is written, no ref is set or cleared, the live records are unchanged.
C12_UnauthorizedResolutionChangesNothing ==
    \A a \in ChangeAudits(DB), u \in Users, approved \in BOOLEAN :
        audits[a].ref = None =>
            /\ \A out \in ApplyOutcomes(a, u, approved) :
                  /\ ~_verify_user_can_apply_audit(DB, a, u)
                        => out.exc = "AuthorizeException"
                  /\ out.exc = "AuthorizeException" => out.db = DB
            /\ ~audits[a].requires_auth =>
                  LET out == approve_or_reject_existing_edit(DB, a, u, approved)
                  IN  /\ ~_verify_user_can_apply_audit(DB, a, u)
                            => out.exc = "AuthorizeException"
                      /\ out.exc = "AuthorizeException" => out.db = DB

\* the user is an administrator of the tenant of the record or holds at
\* least WRITE_WITH_AUDIT on every tracked field
MayDelete(o, u) ==
    \/ get_role(u, o.instance) = "administrator"
    \/ \A f \in tracked_fields(o.model) :
          LevelOn(o, u, f) >= WRITE_WITH_AUDIT

\* C13: user_can_delete(user, record) is true iff the role of the user in
\* the tenant of the record is the administrator role, or the user holds at
\* least WRITE_WITH_AUDIT on every tracked field of the record; it is true
\* for an administrator without any per-field grant.
C13_UserCanDelete ==
    \A o \in LoadedInstances(DB), u \in AllUsers :
        /\ user_can_delete(o, u) <=> MayDelete(o, u)
        /\ (/\ get_role(u, o.instance) = "administrator"
            /\ get_instance_permissions(u, o.instance, o.model) = {})
              => /\ user_can_delete(o, u)
                 /\ Authorizable_delete_with_user(DB, o, u).exc = "ok"

\* C13, reached: an administrator without grants has deleted a record, and
\* a user who cannot write one of the tracked fields may not
C13_Reached ==
    /\ \E a \in AuditPks(DB) :
          /\ audits[a].action = Delete
          /\ get_role(audits[a].user, audits[a].instance) = "administrator"
          /\ get_instance_permissions(audits[a].user, audits[a].instance,
                                      audits[a].model) = {}
    /\ \E o \in LoadedInstances(DB), u \in GuardUsers : ~user_can_delete(o, u)

\* a new, unsaved instance of every model of the schema
BlankInstances(db) ==
    UNION {{ NewInstance(m, inst, vals) : inst \in Instances,
                                          vals \in CallerVals(db, m) }
            : m \in Models }

\* C14: user_can_create(user, direct_only) is true iff every field required
\* for create has at least WRITE_WITH_AUDIT for the user on that model when
\* direct_only is false, and exactly WRITE_DIRECTLY when direct_only is true;
\* so user_can_create(direct_only=true) implies
\* user_can_create(direct_only=false).
C14_UserCanCreate ==
    \A o \in BlankInstances(DB), u \in AllUsers :
        /\ user_can_create(o, u, FALSE) <=>
              \A f \in _fields_required_for_create(o.model) :
                  LevelOn(o, u, f) >= WRITE_WITH_AUDIT
        /\ user_can_create(o, u, TRUE) <=>
              \A f \in _fields_required_for_create(o.model) :
                  LevelOn(o, u, f) = WRITE_DIRECTLY
        /\ user_can_create(o, u, TRUE) => user_can_create(o, u, FALSE)

\* C14, reached: a user who can create only with audits has saved a pending
\* insert, a user who can create directly has inserted a record, and some
\* user can create neither way
C14_Reached ==
    /\ \E a \in AuditPks(DB) :
          /\ audits[a].action = Insert /\ audits[a].requires_auth
          /\ \E o \in BlankInstances(DB) :
                /\ o.model = audits[a].model
                /\ user_can_create(o, audits[a].user, FALSE)
                /\ ~user_can_create(o, audits[a].user, TRUE)
    /\ \E a \in AuditPks(DB) :
          /\ audits[a].action = Insert /\ ~audits[a].requires_auth
          /\ \E o \in BlankInstances(DB) :
                /\ o.model = audits[a].model
                /\ user_can_create(o, audits[a].user, TRUE)
    /\ \E o \in BlankInstances(DB), u \in AllUsers :
          ~user_can_create(o, u, FALSE)

\* the low-level call is refused and leaves the database and the instance,
\* its snapshot included, as they were
Refused(out, o) ==
    /\ out.exc = "UserTrackingException"
    /\ out.db = DB
    /\ out.obj = o

LowLevelCallsAreRefused ==
    \A o \in NewInstances(DB) \cup LoadedInstances(DB) \cup Retained(obj) :
        /\ Refused(save(DB, o), o)
        /\ Refused(delete(DB, o), o)

\* the step is a save_with_user of the insert workflow
StepOfSaveWithUser ==
    \E o \in NewInstances(DB) \cup Retained(obj), u \in Users :
        SaveWithUser(o, u) \/ SaveWithoutVerifyingAuthorization(o, u)

\* the step is the resolution of an audit
StepOfResolution ==
    \E a \in 1..MaxAudits, u \in Users, approved \in BOOLEAN :
        \/ ApproveOrRejectAuditAndApply(a, u, approved)
        \/ ApproveOrRejectExistingEdit(a, u, approved)

\* C15, as stated: the low-level save() and delete() of a tracked record
\* always fail with a user-tracking error and change neither the persisted
\* record, the snapshot nor the ledger, and the persisted records change
\* only in a step of save_with_user or delete_with_user.
C15_OnlyWithUserCallsMutate ==
    /\ []LowLevelCallsAreRefused
    /\ [][rows' # rows => StepOfSaveWithUser]_vars

\* C15, corrected: the low-level save() and delete() of a tracked record
\* always fail with a user-tracking error and change neither the persisted
\* record, the snapshot nor the ledger; the persisted records change only
\* in a step of save_with_user or in the resolution of an audit, which
\* writes the record with save_base().
C15_LowLevelCallsAreRefused ==
    /\ []LowLevelCallsAreRefused
    /\ [][rows' # rows => (StepOfSaveWithUser \/ StepOfResolution)]_vars

\* C15, reached: records were written, and the low-level calls on the
\* saved instance the caller still holds are refused
C15_Reached ==
    /\ rows # SeedRows
    /\ obj.model \in Models /\ pk(obj) # None
    /\ save(DB, obj).exc = "UserTrackingException"
    /\ delete(DB, obj).exc = "UserTrackingException"

\* the tracked fields of a record whose persisted value a write changed; a
\* record that was not persisted before has no value in any field
ChangedByWrite(db, after, m, model_id) ==
    { f \in tracked_fields(m) :
        Persisted(after, m, model_id, f) #
            IF RowExists(db, m, model_id) THEN Persisted(db, m, model_id, f)
            ELSE None }

\* the audits a write added to the ledger
AddedBy(out) == (Len(audits) + 1)..Len(out.db.audits)

\* a write added exactly one audit per field it changed and no other audit
OneAuditPerChangedField(out) ==
    LET m == out.obj.model
        model_id == pk(out.obj)
        changed == ChangedByWrite(DB, out.db, m, model_id)
    IN  /\ \A f \in changed :
              Cardinality({ a \in AddedBy(out) :
                              /\ out.db.audits[a].field = f
                              /\ out.db.audits[a].model = m
                              /\ out.db.audits[a].model_id = model_id }) = 1
        /\ \A a \in AddedBy(out) :
              /\ out.db.audits[a].field \in changed
              /\ out.db.audits[a].model = m
              /\ out.db.audits[a].model_id = model_id

\* the records whose creation is in the ledger and that are persisted
CreatedRecords(db) ==
    { r \in db.rows :
        \E a \in AuditPks(db) :
            /\ db.audits[a].model = r.model
            /\ db.audits[a].model_id = r.vals.id
            /\ db.audits[a].field = "id"
            /\ db.audits[a].action = Insert }

\* the value of a field after the audits of a record were replayed in
\* creation order: the current value of the last audit of the field
Replayed(db, r, f) ==
    LET of_field == { a \in AuditPks(db) :
                        /\ db.audits[a].model = r.model
                        /\ db.audits[a].model_id = r.vals.id
                        /\ db.audits[a].instance = r.instance
                        /\ db.audits[a].field = f }
    IN  IF of_field = {} THEN None
        ELSE LET last == CHOOSE a \in of_field : \A b \in of_field : b <= a
             IN  IF db.audits[last].current_value = Serialize(None) THEN None
                 ELSE to_python(db.audits[last].current_value)

ReplayReconstructs ==
    \A r \in CreatedRecords(DB) :
        \A f \in tracked_fields(r.model) : Replayed(DB, r, f) = r.vals[f]

\* the direct writes of the workflow: a creation, the save of the held
\* instance after an edit, and the save of a loaded and edited tree
DirectWrites ==
    NewInstances(DB) \cup Retained(obj) \cup HeldEdits(obj)
        \cup EditedInstances(DB)

\* C16: for every tracked record and every sequence of direct writes (a
\* creation followed by updates by users with WRITE_DIRECTLY on every field
\* they touch), each write adds exactly one Audit per field changed by the
\* write (and one identity audit on creation) and none for an unchanged
\* field, and replaying the Audits of the record in creation order, taking
\* the current value of each audit for its field, gives the persisted values
\* of the record.
C16_DirectWritesRoundTrip ==
    /\ ReplayReconstructs
    /\ \A o \in DirectWrites, u \in DirectUsers :
          LET out == Authorizable_save_with_user(DB, o, u)
          IN  out.exc = "ok" => OneAuditPerChangedField(out)

\* the unmasked instances of persisted records a caller may hold
DeletableInstances ==
    { o \in LoadedInstances(DB) \cup Retained(obj) :
        ~o.masked /\ pk(o) # None }

\* the ledger grew by one Delete audit of the record: field null,
\* requires_auth false, no ref
OneDeleteAudit(out, o, u) ==
    /\ Len(out.db.audits) = Len(audits) + 1
    /\ SubSeq(out.db.audits, 1, Len(audits)) = audits
    /\ LET a == out.db.audits[Len(out.db.audits)]
       IN  /\ a.action = Delete
           /\ a.field = NullField
           /\ ~a.requires_auth
           /\ a.ref = None
           /\ a.model = o.model /\ a.model_id = pk(o)
           /\ a.user = u

\* C17: delete_with_user by a user for whom user_can_delete holds deletes
\* the record immediately (never deferred as pending) and writes exactly one
\* Audit with field null, action Delete and requires_auth false; by a user
\* for whom it does not hold it fails with an authorization error, the
\* record remains persisted and no Audit is written.
C17_DeleteIsImmediateOrRefused ==
    \A o \in DeletableInstances, u \in AllUsers :
        LET out == Authorizable_delete_with_user(DB, o, u)
        IN  IF user_can_delete(o, u)
            THEN /\ out.exc = "ok"
                 /\ ~RowExists(out.db, o.model, pk(o))
                 /\ OneDeleteAudit(out, o, u)
            ELSE /\ out.exc = "AuthorizeException"
                 /\ out.db = DB

\* C17, reached: a user who holds only WRITE_WITH_AUDIT has deleted a
\* record, and a user who may not delete is refused on a persisted record
C17_Reached ==
    /\ \E a \in AuditPks(DB) :
          /\ audits[a].action = Delete
          /\ audits[a].user = "apprentice"
          /\ ~RowExists(DB, audits[a].model, audits[a].model_id)
    /\ \E o \in DeletableInstances, u \in GuardUsers :
          /\ ~user_can_delete(o, u)
          /\ RowExists(DB, o.model, pk(o))
          /\ Authorizable_delete_with_user(DB, o, u).exc = "AuthorizeException"

\* the instances mask_unauthorized_fields was applied to
MaskedInstances ==
    { o \in Retained(obj) : o.masked }
    \cup { mask_unauthorized_fields(o, u).obj :
             o \in LoadedTrees(DB), u \in GuardUsers }

\* the call is refused with the authorization error, the database is as it was
\* and the instance is still masked
RefusedAsMasked(out) ==
    /\ out.exc = "AuthorizeException"
    /\ out.db = DB
    /\ out.obj.masked

\* C18: once mask_unauthorized_fields has been applied to a record, the
\* record stays masked and every mutating operation on it (save_with_user,
\* delete_with_user and save_with_user_without_verifying_authorization)
\* fails with the masked-object authorization error, persists nothing and
\* writes no Audit.
C18_MaskedRecordRefusesMutation ==
    \A o \in MaskedInstances, u \in AllUsers :
        o.masked =>
            /\ RefusedAsMasked(Authorizable_save_with_user(DB, o, u))
            /\ RefusedAsMasked(Authorizable_delete_with_user(DB, o, u))
            /\ RefusedAsMasked(
                  save_with_user_without_verifying_authorization(DB, o, u))

\* the part of C18 that is about save_with_user and delete_with_user
MaskedRecordRefusesVerifiedCalls ==
    \A o \in MaskedInstances, u \in AllUsers :
        o.masked =>
            /\ RefusedAsMasked(Authorizable_save_with_user(DB, o, u))
            /\ RefusedAsMasked(Authorizable_delete_with_user(DB, o, u))

\* the place of an audit in the order of a batch: another field than id,
\* the id of a Plot, the id of a Tree, the id of another model
Stage(a) ==
    IF audits[a].field # "id" THEN 0
    ELSE IF audits[a].model = "Plot" THEN 1
    ELSE IF audits[a].model = "Tree" THEN 2
    ELSE 3

\* every audit of the batch is passed on exactly once
PassedOnExactlyOnce(batch, order) ==
    /\ Len(order) = Len(batch)
    /\ \A i \in DOMAIN batch :
          Cardinality({ j \in DOMAIN order : order[j] = batch[i] }) = 1

\* the batches of the ledger and how they are run
BatchRuns ==
    { run \in [batch : Batches(ChangeAudits(DB)), u : BatchReviewers,
               approved : BOOLEAN, asc : BOOLEAN] :
        run.approved => run.asc }

BatchOutcome(run) ==
    approve_or_reject_audits_and_apply(DB, run.batch, run.u, run.approved,
                                       run.asc)

\* C19: in approve_or_reject_audits_and_apply, for every input collection
\* in any order, every audit of another field than id is resolved before
\* any id audit, every id audit of a Plot before any id audit of a Tree,
\* the id audits of every other model after those of Plot and Tree, and
\* each input audit is passed to approve_or_reject_audit_and_apply exactly
\* once. A batch of approvals that returns has linked its k-th review audit
\* to the k-th audit of that order.
C19_BatchResolutionOrder ==
    \A run \in BatchRuns :
        LET order == ResolutionOrder(DB, run.batch)
            out == BatchOutcome(run)
        IN  /\ PassedOnExactlyOnce(run.batch, order)
            /\ \A i, j \in DOMAIN order :
                  i < j => Stage(order[i]) <= Stage(order[j])
            /\ \A i, j \in DOMAIN order :
                  (i < j /\ Stage(order[i]) = 0 /\ Stage(order[j]) = 0) =>
                      \E k, l \in DOMAIN run.batch :
                          /\ k < l
                          /\ run.batch[k] = order[i]
                          /\ run.batch[l] = order[j]
            /\ out.exc = "ok" =>
                  \A k \in DOMAIN order : out.db.audits[order[k]].ref # None
            /\ (out.exc = "ok" /\ run.approved) =>
                  /\ Len(out.db.audits) = Len(audits) + Len(order)
                  /\ \A k \in DOMAIN order :
                        out.db.audits[order[k]].ref = Len(audits) + k

\* C19, reached: approvals were committed, and a batch of this ledger that
\* holds the id audit of a Tree before the id audit of a Plot returns with
\* the Plot reviewed first
C19_Reached ==
    /\ \E a \in AuditPks(DB) : audits[a].action = PendingApprove
    /\ \E run \in BatchRuns :
          LET out == BatchOutcome(run)
          IN  /\ out.exc = "ok"
              /\ \E i, j \in DOMAIN run.batch :
                    /\ i < j
                    /\ Stage(run.batch[i]) = 2
                    /\ Stage(run.batch[j]) = 1
                    /\ out.db.audits[run.batch[j]].ref
                          < out.db.audits[run.batch[i]].ref

\* C20: approve_or_reject_audits_and_apply is all-or-nothing: when the
\* resolution of an audit of the batch fails, every effect of the batch is
\* rolled back: no audit of the batch has its ref set by it, no review
\* audit of the batch remains in the ledger and no record was changed or
\* made.
C20_BatchIsAllOrNothing ==
    \A run \in BatchRuns :
        LET out == BatchOutcome(run)
        IN  out.exc # "ok" =>
                /\ out.db.audits = audits
                /\ out.db.rows = rows
                /\ out.db.id_seq = id_seq

\* the batch fails after it has written
FailsPartWay(run) ==
    LET ran == ResolveInOrder(DB, ResolutionOrder(DB, run.batch), run.u,
                              run.approved, run.asc)
    IN  /\ ran.exc # "ok"
        /\ ran.db.audits # audits
        /\ ran.db.rows # rows

\* C20, reached: batches were resolved, and a batch of this ledger fails
\* after a resolution that linked a review audit and made a record
C20_Reached ==
    /\ \E a \in AuditPks(DB) : audits[a].action = PendingApprove
    /\ \E run \in BatchRuns : FailsPartWay(run)

\* the calls of a batch in the order they are made
CallsOf(run) == ResolutionOrder(DB, run.batch)

\* the number of resolutions of a batch that returned before the batch ended
CompletedOf(run) ==
    Cardinality({ k \in DOMAIN CallsOf(run) :
        ResolveInOrder(DB, SubSeq(CallsOf(run), 1, k), run.u, run.approved,
                       run.asc).exc = "ok" })

\* the batches that fail after at least one resolution has returned
FailsAfterSuccess(run) ==
    /\ BatchOutcome(run).exc # "ok"
    /\ CompletedOf(run) >= 1

\* C21, as stated: in batch review each resolved audit is its own atomic
\* unit: when a resolution fails part-way through the batch, the remaining
\* audits are not processed and the resolutions completed earlier in the
\* same batch remain committed.
C21_EarlierResolutionsStayCommitted ==
    \A run \in BatchRuns :
        FailsAfterSuccess(run) =>
            LET out == BatchOutcome(run)
                order == CallsOf(run)
            IN  /\ \A k \in 1..CompletedOf(run) :
                      out.db.audits[order[k]].ref # None
                /\ Len(out.db.audits) >= Len(audits) + CompletedOf(run)
                /\ \A k \in (CompletedOf(run) + 1)..Len(order) :
                      out.db.audits[order[k]].ref = audits[order[k]].ref

\* C21, corrected: when a resolution fails part-way through the batch, the
\* remaining audits are not processed, the exception of the failed
\* resolution reaches the caller, and the resolutions completed earlier in
\* the same batch are rolled back with it: every audit of the batch has the
\* ref it had before the call and the ledger holds no review audit of the
\* batch.
C21_EarlierResolutionsAreRolledBack ==
    \A run \in BatchRuns :
        FailsAfterSuccess(run) =>
            LET out == BatchOutcome(run)
                order == CallsOf(run)
                ran == ResolveInOrder(DB, order, run.u, run.approved, run.asc)
            IN  /\ out.exc = ran.exc
                /\ CompletedOf(run) < Len(order)
                /\ \A k \in DOMAIN order :
                      out.db.audits[order[k]].ref = audits[order[k]].ref
                /\ Len(out.db.audits) = Len(audits)
                /\ out.db.rows = rows

\* C21, reached: approvals were committed, and a batch of this ledger fails
\* in its second resolution after the first one returned
C21_Reached ==
    /\ \E a \in AuditPks(DB) : audits[a].action = PendingApprove
    /\ \E run \in BatchRuns :
          /\ FailsAfterSuccess(run)
          /\ Len(run.batch) = 2
          /\ CompletedOf(run) = 1

\* the identity audits of pending inserts of trees that wait for review
PendingTreeIdentities ==
    { a \in ChangeAudits(DB) :
        /\ PendingIdentity(a)
        /\ audits[a].model = "Tree"
        /\ audits[a].ref = None
        /\ ~RowExists(DB, "Tree", audits[a].model_id) }

\* the approved audits of the plot of a pending tree
ApprovedPlotAudits(a) ==
    { b \in get_related_audits(DB, a, TRUE) : audits[b].field = "plot" }

\* the plot of the pending tree is null: no audit of it was approved
ParentIsNull(a) == ApprovedPlotAudits(a) = {}

\* the plot of the pending tree is not persisted
ParentIsMissing(a) ==
    \E b \in ApprovedPlotAudits(a) :
        ~RowExists(DB, "Plot", to_python(audits[b].current_value))

\* the failures of the store and of its lookups, which the callers of a
\* resolution take for internal consistency failures
ConsistencyErrors == {"IntegrityError", "DoesNotExist"}

NullParentReached ==
    \E a \in PendingTreeIdentities :
        /\ ParentIsNull(a)
        /\ approve_or_reject_audit_and_apply(DB, a, "commander", TRUE,
                                             << >>).exc = "IntegrityError"

\* the identity audits of pending inserts that wait for review
PendingIdentities ==
    { a \in ChangeAudits(DB) :
        /\ PendingIdentity(a)
        /\ audits[a].ref = None
        /\ ~RowExists(DB, audits[a].model, audits[a].model_id) }

\* the record made by an approval holds the reserved identifier and the
\* current value of each audit of a set of audits of its fields
MaterializedFrom(out, a, siblings) ==
    /\ RowExists(out.db, audits[a].model, audits[a].model_id)
    /\ \A b \in siblings :
          Persisted(out.db, audits[a].model, audits[a].model_id,
                    audits[b].field)
            = _deserialize_value(audits[b].current_value)

\* C23: when the identity audit of a pending insert is approved, the record
\* that is made has the reserved identifier as its primary key and, for
\* every other audit of the same tenant, model type, reserved identifier
\* and Insert action, the field of the record holds the current value of
\* that audit.
C23_RecordHoldsEverySiblingValue ==
    \A a \in PendingIdentities, u \in Users :
        LET out == approve_or_reject_audit_and_apply(DB, a, u, TRUE, << >>)
        IN  out.exc = "ok" =>
                MaterializedFrom(out, a, get_related_audits(DB, a, FALSE))

\* what holds instead: the record holds the values of the approved siblings,
\* and no value in the field of a sibling that was not approved
RecordHoldsApprovedSiblingValues ==
    \A a \in PendingIdentities, u \in Users :
        LET out == approve_or_reject_audit_and_apply(DB, a, u, TRUE, << >>)
        IN  out.exc = "ok" =>
                /\ MaterializedFrom(out, a, get_related_audits(DB, a, TRUE))
                /\ \A b \in get_related_audits(DB, a, FALSE)
                            \ get_related_audits(DB, a, TRUE) :
                      Persisted(out.db, audits[a].model, audits[a].model_id,
                                audits[b].field) = None

\* the audit is linked to a PendingApprove review audit of its own
ApprovedOnItsOwn(db, b, others) ==
    /\ db.audits[b].ref # None
    /\ db.audits[db.audits[b].ref].action = PendingApprove
    /\ \A c \in others \ {b} : db.audits[c].ref # db.audits[b].ref

\* C24: after the identity audit of a pending insert has been approved, the
\* identity audit and every sibling field audit are resolved: each of them
\* has its ref pointing to its own PendingApprove review audit, so no audit
\* of the pending insert remains pending.
C24_ApprovalResolvesEverySibling ==
    \A a \in PendingIdentities, u \in Users :
        LET out == approve_or_reject_audit_and_apply(DB, a, u, TRUE, << >>)
            all == {a} \cup get_related_audits(DB, a, FALSE)
        IN  out.exc = "ok" =>
                \A b \in all : ApprovedOnItsOwn(out.db, b, all)

\* what holds instead: the identity audit gets its own PendingApprove review
\* audit and the ref of every sibling is left as it was
ApprovalResolvesTheIdentityOnly ==
    \A a \in PendingIdentities, u \in Users :
        LET out == approve_or_reject_audit_and_apply(DB, a, u, TRUE, << >>)
            siblings == get_related_audits(DB, a, FALSE)
        IN  out.exc = "ok" =>
                /\ ApprovedOnItsOwn(out.db, a, {a} \cup siblings)
                /\ Len(out.db.audits) = Len(audits) + 1
                /\ \A b \in siblings : out.db.audits[b].ref = audits[b].ref

\* the audits the saves have written or are about to write: the ledger and
\* the audits left to the save in flight
AuditsOfSaves == audits \o (IF InFlight(obj) THEN obj.todo ELSE << >>)

\* the identity audits of creations
IdentityAudits ==
    { a \in DOMAIN AuditsOfSaves :
        /\ AuditsOfSaves[a].field = "id"
        /\ AuditsOfSaves[a].action = Insert }

\* C25: reserved identifiers are drawn from the same atomically incremented
\* sequence as normal primary keys: under any interleaving of concurrent
\* pending-insert saves and direct creations across tenants and users, no
\* two saves obtain the same identifier, and a reserved identifier never
\* equals, nor is later given to, a normally created record, also after its
\* pending insert was rejected.
C25_IdentifiersAreNeverShared ==
    /\ \A a, b \in IdentityAudits :
          (/\ a # b
           /\ AuditsOfSaves[a].model = AuditsOfSaves[b].model)
              => AuditsOfSaves[a].model_id # AuditsOfSaves[b].model_id
    /\ \A a \in IdentityAudits :
          /\ AuditsOfSaves[a].model_id > SeedSeq[AuditsOfSaves[a].model]
          /\ AuditsOfSaves[a].model_id <= id_seq[AuditsOfSaves[a].model]
          /\ AuditsOfSaves[a].requires_auth =>
                ~RowExists(DB, AuditsOfSaves[a].model,
                           AuditsOfSaves[a].model_id)
    /\ \A r \in rows : r.vals.id <= id_seq[r.model]
    /\ \A r, q \in rows :
          (r.model = q.model /\ r.vals.id = q.vals.id) => r = q

\* C25, reached: the pending insert of one tenant and the direct creation
\* of another were interleaved, so that the larger identifier is first in
\* the ledger, and the pending insert was rejected
C25_Reached ==
    \E a, b \in ChangeAudits(DB) :
        /\ PendingIdentity(a) /\ ResolvedAs(a, PendingReject)
        /\ audits[b].field = "id" /\ audits[b].action = Insert
        /\ ~audits[b].requires_auth
        /\ audits[a].model = audits[b].model
        /\ audits[a].instance # audits[b].instance
        /\ b < a
        /\ audits[b].model_id > audits[a].model_id
        /\ RowExists(DB, audits[b].model, audits[b].model_id)

\* the level of the claim: the level of the grant, the default level of the
\* role without a grant
EffectiveLevel(o, u, f) ==
    IF HasGrant(u, o.instance, o.model, f)
    THEN permission_level(u, o.instance, o.model, f)
    ELSE default_permission(get_role(u, o.instance))

\* the authorization decisions on a record decide by the levels of Level
DecidesBy(Level(_, _, _), o, u) ==
    /\ _get_perms_set(o, u, FALSE) =
          { f \in tracked_fields(o.model) : allows_writes(Level(o, u, f)) }
    /\ _get_perms_set(o, u, TRUE) =
          { f \in tracked_fields(o.model) : Level(o, u, f) = WRITE_DIRECTLY }
    /\ \A direct_only \in BOOLEAN :
          user_can_create(o, u, direct_only) <=>
              \A f \in _fields_required_for_create(o.model) :
                  f \in _get_perms_set(o, u, direct_only)
    /\ get_pending_fields(o, u) =
          { f \in _updated_fields(o) : Level(o, u, f) = WRITE_WITH_AUDIT }
    /\ LET out == mask_unauthorized_fields(o, u)
       IN  out.exc = "ok" =>
             \A f \in DOMAIN o.prev :
                 (out.obj.vals[f] = o.vals[f] /\ o.vals[f] # None)
                     => allows_reads(Level(o, u, f))

\* the reviewer check decides by the levels of Level
ReviewerDecidesBy(Level(_, _, _), a, u) ==
    _verify_user_can_apply_audit(DB, a, u) <=>
        Level([model |-> audits[a].model, instance |-> audits[a].instance],
              u, audits[a].field) = WRITE_DIRECTLY

\* the audits of a tracked field
FieldAudits ==
    { a \in ChangeAudits(DB) : audits[a].field \in tracked_fields(audits[a].model) }

\* C26: when no explicit FieldPermission exists for a (tenant, role, model
\* type, field), every authorization decision for that field (writable set
\* on save, user_can_create, user_can_delete, pending-field selection, read
\* visibility, reviewer check) uses the default permission level of the role
\* as the effective level.
C26_MissingGrantUsesRoleDefault ==
    /\ \A o \in LoadedInstances(DB) \cup MultiEditedInstances(DB)
                \cup BlankInstances(DB), u \in AllUsers :
          /\ DecidesBy(EffectiveLevel, o, u)
          /\ user_can_delete(o, u) <=>
                \/ get_role(u, o.instance) = "administrator"
                \/ \A f \in tracked_fields(o.model) :
                      allows_writes(EffectiveLevel(o, u, f))
    /\ \A a \in FieldAudits, u \in AllUsers :
          ReviewerDecidesBy(EffectiveLevel, a, u)

\* what holds instead: a field without a grant is decided as a field with
\* the level NONE, whatever the default level of the role
MissingGrantIsNoLevel ==
    /\ \A o \in LoadedInstances(DB) \cup MultiEditedInstances(DB)
                \cup BlankInstances(DB), u \in AllUsers :
          DecidesBy(LevelOn, o, u)
    /\ \A a \in FieldAudits, u \in AllUsers :
          ReviewerDecidesBy(LevelOn, a, u)

\* the keys add_default_permissions is asked to fill
RequestedKeys(roles, models) ==
    UNION { { PermsOf(models, roles[r])[i] :
                i \in DOMAIN PermsOf(models, roles[r]) } : r \in DOMAIN roles }

\* add_default_permissions on a table: the rows of the table stay as they
\* are, every requested key that had no row gets one with the default level
\* of its role, no other row is added
FillsTheMissingGrants(table, inst, roles, models) ==
    LET once == add_default_permissions(table, inst, roles, models)
    IN  /\ once.exc = "ok"
        /\ table \subseteq once.table
        /\ \A key \in RequestedKeys(roles, models) :
              \E q \in once.table : PermKey(q) = key
        /\ \A q \in once.table \ table :
              /\ PermKey(q) \in RequestedKeys(roles, models)
              /\ q.permission_level = default_permission(q.role)

\* add_default_permissions twice in a row is add_default_permissions once
SecondCallChangesNothing(table, inst, roles, models) ==
    LET once == add_default_permissions(table, inst, roles, models)
        twice == add_default_permissions(once.table, inst, roles, models)
    IN  twice = once

\* C27: after any sequence of grant writes and add_default_permissions
\* calls there is at most one FieldPermission row per (tenant, role, model
\* type, field); add_default_permissions creates each missing grant with
\* the default level of the role, never changes the level of an already
\* existing grant, and calling it twice in a row leaves the same permission
\* set as calling it once.
C27_OneGrantPerKey ==
    /\ \A p, q \in field_permissions : PermKey(p) = PermKey(q) => p = q
    /\ \A inst \in Instances, models \in ModelsArguments :
          \A roles \in RolesArguments(inst) :
              /\ FillsTheMissingGrants(field_permissions, inst, roles, models)
              /\ SecondCallChangesNothing(field_permissions, inst, roles,
                                          models)

\* C27, reached: a grant of the editor was written with WRITE_DIRECTLY, and
\* add_default_permissions then filled the grants of the editor and of the
\* viewer with the default levels
C27_Reached ==
    \E p, q, v \in field_permissions :
        /\ p.role = "editor" /\ q.role = "editor" /\ v.role = "viewer"
        /\ p.model_name = "Tree" /\ q.model_name = "Tree"
        /\ p.permission_level = WRITE_DIRECTLY
        /\ q.permission_level = default_permission("editor")
        /\ v.permission_level = default_permission("viewer")
        /\ p.id < q.id

\* the fields of a record of which the ledger holds an audit of its
\* creation
AuditedAtCreation(m, id) ==
    { audits[a].field :
        a \in { b \in DOMAIN audits : /\ audits[b].model = m
                                       /\ audits[b].model_id = id
                                       /\ audits[b].action = Insert } }

\* C28: save(user, record) and delete(user, record) are atomic units of
\* work: in every outcome, including a failure between the record write and
\* an audit write, either the record mutation (or identifier reservation)
\* and all Audit rows of that operation are committed, or none of them is;
\* no reachable state has a persisted record change without its Audit rows
\* or Audit rows without the record change.
C28_SaveCommitsAllOrNothing ==
    ~InFlight(obj) =>
        \A id \in (SeedSeq["Tree"] + 1)..id_seq["Tree"] :
            {"plot", "id"} \subseteq AuditedAtCreation("Tree", id)

\* what holds instead: when no save is in flight, a tree that was created
\* or reserved has all, some or none of the audits of its creation
CreationAuditsMayBeMissing ==
    \A id \in (SeedSeq["Tree"] + 1)..id_seq["Tree"] :
        AuditedAtCreation("Tree", id) \subseteq {"plot", "id"}

\* the record of the instance exists in the store
AlreadyExists(o) == pk(o) # None /\ RowExists(DB, o.model, pk(o))

\* the user holds WRITE_DIRECTLY on every field required for create
WritesRequiredFieldsDirectly(o, u) ==
    \A f \in _fields_required_for_create(o.model) :
        LevelOn(o, u, f) = WRITE_DIRECTLY

\* the save persisted the record: it is not a pending insert and the store
\* holds its row
PersistedAtOnce(out) ==
    /\ ~out.obj.is_pending_insert
    /\ RowExists(out.db, out.obj.model, pk(out.obj))

\* the save made the record a pending insert: it holds the next identifier
\* of the sequence and no row was written
MadePendingInsert(out) ==
    /\ out.obj.is_pending_insert
    /\ pk(out.obj) = id_seq[out.obj.model] + 1
    /\ out.db.id_seq[out.obj.model] = pk(out.obj)
    /\ out.db.rows = rows

\* the save of a creation wrote one identity audit, which requires
\* authorization iff the record became a pending insert
IdentityAuditTellsPending(out) ==
    LET ids == { a \in AddedBy(out) : /\ out.db.audits[a].field = "id"
                                       /\ out.db.audits[a].action = Insert }
    IN  /\ Cardinality(ids) = 1
        /\ \A a \in ids :
              /\ out.db.audits[a].model_id = pk(out.obj)
              /\ out.db.audits[a].requires_auth <=> out.obj.is_pending_insert

PersistsOrReserves(exists, o, u, bypass, out) ==
    out.exc = "ok" =>
        /\ IF exists \/ WritesRequiredFieldsDirectly(o, u) \/ bypass
           THEN PersistedAtOnce(out)
           ELSE MadePendingInsert(out)
        /\ pk(o) = None => IdentityAuditTellsPending(out)

\* C29: a save persists the record immediately iff the record already
\* exists, or the user has WRITE_DIRECTLY on all required-for-create fields,
\* or the caller used the authorization-bypass path; in exactly the
\* remaining case the record gets a reserved identifier and is marked
\* pending insert without being persisted, and the identity audit of a
\* creation is written with requires_auth = true iff the record became a
\* pending insert.
C29_PersistsOrReserves ==
    \A o \in NewInstances(DB) \cup EditedInstances(DB) \cup Retained(obj),
       u \in Users :
        /\ PersistsOrReserves(AlreadyExists(o), o, u, FALSE,
                              Authorizable_save_with_user(DB, o, u))
        /\ PersistsOrReserves(AlreadyExists(o), o, u, TRUE,
              save_with_user_without_verifying_authorization(DB, o, u))

\* what holds instead: the save persists the record at once when the
\* instance holds an identifier, whether the store holds its record or not
InstanceWithIdentifierIsPersisted ==
    \A o \in NewInstances(DB) \cup EditedInstances(DB) \cup Retained(obj),
       u \in Users :
        /\ PersistsOrReserves(pk(o) # None, o, u, FALSE,
                              Authorizable_save_with_user(DB, o, u))
        /\ PersistsOrReserves(pk(o) # None, o, u, TRUE,
              save_with_user_without_verifying_authorization(DB, o, u))

\* the save of the instance by the user reserves an identifier
Reserves(o, u) ==
    LET out == Authorizable_save_with_user(DB, o, u)
    IN  out.exc = "ok" /\ out.obj.is_pending_insert

\* the save whose reservation fails raises the error of the store, writes
\* nothing and leaves the record without identifier and not pending
FailsWithoutTrace(o, u) ==
    LET failed == Authorizable_save_with_user_at(DB, o, u, TRUE)
    IN  /\ failed.exc = "IntegrityError"
        /\ failed.db = DB
        /\ pk(failed.obj) = None
        /\ ~failed.obj.is_pending_insert

\* the save of the record after the failed one writes the audits the first
\* would have written
RetryWritesTheSameAudits(o, u) ==
    LET first == Authorizable_save_with_user(DB, o, u)
        failed == Authorizable_save_with_user_at(DB, o, u, TRUE)
        retry == Authorizable_save_with_user(failed.db, failed.obj, u)
    IN  /\ retry.exc = "ok"
        /\ retry.db.audits = first.db.audits

\* C30: if identifier reservation fails during a creation save, the save
\* fails with a store-consistency error, no Audit row is written, the record
\* is assigned no identifier and is not marked pending insert, and retrying
\* save on the same record behaves as a fresh attempt: the retry writes the
\* same identity and field audits that the first attempt would have written
\* had the reservation succeeded.
C30_RetryIsAFreshAttempt ==
    \A o \in NewInstances(DB), u \in Users :
        Reserves(o, u) =>
            /\ FailsWithoutTrace(o, u)
            /\ RetryWritesTheSameAudits(o, u)

\* what holds instead: the failed save leaves no trace in the store, and
\* the retry writes the identity audit and the audits of the fields the
\* failed save did not reset
FailedReservationLeavesNoTrace ==
    \A o \in NewInstances(DB), u \in Users :
        Reserves(o, u) =>
            /\ FailsWithoutTrace(o, u)
            /\ LET first == Authorizable_save_with_user(DB, o, u)
                   failed == Authorizable_save_with_user_at(DB, o, u, TRUE)
                   retry == Authorizable_save_with_user(DB, failed.obj, u)
               IN  /\ retry.exc = "ok"
                   /\ \A a \in AddedBy(retry) :
                         \E b \in AddedBy(first) :
                             retry.db.audits[a] = first.db.audits[b]
                   /\ \E a \in AddedBy(retry) :
                         retry.db.audits[a].field = "id"

\* the audit was applied when it was written and is not yet reviewed, and
\* the reviewer may review it
ReviewableBy(a, u) ==
    /\ ~audits[a].requires_auth
    /\ audits[a].ref = None
    /\ _verify_user_can_apply_audit(DB, a, u)

\* the call added one review audit of the action, by the reviewer, that
\* describes the audit, and made it the ref of the audit; no other audit
\* changed
ReviewedWith(out, a, u, action) ==
    LET review_pk == Len(audits) + 1
    IN  /\ out.exc = "ok"
        /\ Len(out.db.audits) = review_pk
        /\ out.db.audits[review_pk] = ReviewAudit(DB, a, u, action)
        /\ out.db.audits[a] = [audits[a] EXCEPT !.ref = review_pk]
        /\ \A b \in AuditPks(DB) \ {a} : out.db.audits[b] = audits[b]

\* C31: approve_or_reject_existing_edit refuses an audit that has
\* requires_auth = true with an error and no state change; on an applied
\* audit, approval writes a ReviewApprove review audit, links it via ref and
\* leaves the live record unchanged, and rejection writes a ReviewReject
\* review audit and links it via ref (deleting the record when the rejected
\* audit is the identity audit, and still marking the audit rejected when
\* the record no longer exists).
C31_AfterTheFactReview ==
    \A a \in ChangeAudits(DB), u \in Users :
        LET approval == approve_or_reject_existing_edit(DB, a, u, TRUE)
            rejection == approve_or_reject_existing_edit(DB, a, u, FALSE)
        IN  /\ audits[a].requires_auth =>
                  /\ approval.exc = "Exception" /\ approval.db = DB
                  /\ rejection.exc = "Exception" /\ rejection.db = DB
            /\ ReviewableBy(a, u) =>
                  /\ ReviewedWith(approval, a, u, ReviewApprove)
                  /\ approval.db.rows = rows
                  /\ ReviewedWith(rejection, a, u, ReviewReject)
                  /\ audits[a].field = "id" =>
                        ~RowExists(rejection.db, audits[a].model,
                                   audits[a].model_id)
                  /\ ~RowExists(DB, audits[a].model, audits[a].model_id) =>
                        rejection.db.rows = rows

\* the rejection would put no value into a field that must hold one
RevertsToNothing(a) ==
    /\ audits[a].field \in _fields_required_for_create(audits[a].model)
    /\ audits[a].previous_value = Serialize(None)
    /\ RowExists(DB, audits[a].model, audits[a].model_id)
    /\ most_recent_audit(DB, a) = a

\* what holds instead: the rejection of the audit that gave a required
\* field its first value raises the error of the assignment or of the store
\* and writes no review audit; every other review is as C31 says
RejectionOfFirstValueRaises ==
    \A a \in ChangeAudits(DB), u \in Users :
        LET approval == approve_or_reject_existing_edit(DB, a, u, TRUE)
            rejection == approve_or_reject_existing_edit(DB, a, u, FALSE)
        IN  /\ audits[a].requires_auth =>
                  /\ approval.exc = "Exception" /\ approval.db = DB
                  /\ rejection.exc = "Exception" /\ rejection.db = DB
            /\ ReviewableBy(a, u) =>
                  /\ ReviewedWith(approval, a, u, ReviewApprove)
                  /\ approval.db.rows = rows
                  /\ IF RevertsToNothing(a)
                     THEN /\ rejection.exc \in {"ValueError", "IntegrityError"}
                          /\ rejection.db = DB
                     ELSE ReviewedWith(rejection, a, u, ReviewReject)
                  /\ audits[a].field = "id" =>
                        ~RowExists(rejection.db, audits[a].model,
                                   audits[a].model_id)
                  /\ ~RowExists(DB, audits[a].model, audits[a].model_id) =>
                        rejection.db.rows = rows

\* the audits of the field of the record that were created after the audit
\* and whose change was applied to the record: written without a need of
\* authorization, or approved
LaterAppliedChanges(a) ==
    { b \in ChangeAudits(DB) :
        /\ b > a
        /\ audits[b].model = audits[a].model
        /\ audits[b].model_id = audits[a].model_id
        /\ audits[b].instance = audits[a].instance
        /\ audits[b].field = audits[a].field
        /\ \/ ~audits[b].requires_auth
           \/ ResolvedAs(b, PendingApprove) }

\* the applied audits of a field of a record of the store that a reviewer
\* may reject
RejectableFieldAudits(u) ==
    { a \in FieldAudits :
        /\ audits[a].field # "id"
        /\ ReviewableBy(a, u)
        /\ RowExists(DB, audits[a].model, audits[a].model_id) }

\* the rejection of a field audit: the most recent audit of the field is
\* reverted, another one is marked and leaves the rows as they are
RejectionOfFieldAudit(a, u, Superseded(_)) ==
    LET rejection == approve_or_reject_existing_edit(DB, a, u, FALSE)
    IN  IF most_recent_audit(DB, a) = a
        THEN /\ ReviewedWith(rejection, a, u, ReviewReject)
             /\ Serialize(Persisted(rejection.db, audits[a].model,
                                    audits[a].model_id, audits[a].field))
                  = audits[a].previous_value
        ELSE /\ ReviewedWith(rejection, a, u, ReviewReject)
             /\ rejection.db.rows = rows
             /\ Superseded(a)

HasLaterAppliedChange(a) == LaterAppliedChanges(a) # {}

\* C32: when a non-identity audit is rejected: if it is the most recently
\* created audit for its (tenant, model type, record, field) the live field
\* is reverted to the previous value of the audit; if it is not, the
\* rejection is a no-op against the live data but the audit is still marked
\* resolved, and in that case some later audit for that field has actually
\* been applied to the record.
C32_RejectionRevertsTheLatestOnly ==
    \A u \in Users : \A a \in RejectableFieldAudits(u) :
        RejectionOfFieldAudit(a, u, HasLaterAppliedChange)

HasLaterAudit(a) == most_recent_audit(DB, a) > a

\* the previous value of the audit can be put back into the field
CanBePutBack(a) ==
    /\ ~RevertsToNothing(a)
    /\ ~DeserializeRaises(DB, audits[a].model, audits[a].field,
                          audits[a].previous_value)

\* what holds instead, for the audits whose previous value can be put
\* back: an audit that is not the most recent of its field is marked and
\* nothing is reverted, whether the later audits were applied or not
LaterAuditOfAnyKindStopsTheRevert ==
    \A u \in Users : \A a \in RejectableFieldAudits(u) :
        CanBePutBack(a) => RejectionOfFieldAudit(a, u, HasLaterAudit)


\* the direct-write score the metrics of the instance give for the audits
\* a user wrote without authorisation being required
DirectScoreOf(iuser) ==
    Cardinality({a \in DOMAIN audits :
        /\ audits[a].user = iuser[1]
        /\ audits[a].instance = iuser[2]
        /\ ~audits[a].requires_auth
        /\ ReputationMetric_objects_get(audits[a].instance, audits[a].model,
                                        audits[a].action) # {}})

\* the users none of whose audits was ever pending: their reputation is
\* made of direct-write scores only
OnlyWroteDirectly(iuser) ==
    \A a \in DOMAIN audits :
        (audits[a].user = iuser[1] /\ audits[a].instance = iuser[2])
            => ~audits[a].requires_auth

\* C33: the post_save notification is sent exactly once for every Audit
\* row, linking or clearing ref does not send it again, so a user whose
\* audits were all applied directly has a reputation of one direct-write
\* score per audit
C33_NotifiedOncePerAudit ==
    /\ \A a \in DOMAIN audits : post_save[a] = 1
    /\ \A iuser \in DOMAIN reputation :
           OnlyWroteDirectly(iuser) => reputation[iuser] = DirectScoreOf(iuser)

\* every row of the ledger has its notification counter, and the first
\* save of a row sends the notification
NotifiedAtLeastOnce ==
    /\ DOMAIN post_save = DOMAIN audits
    /\ \A a \in DOMAIN audits : post_save[a] >= 1

\* before any audit is linked or cleared, the score was added once per audit
ScoredOncePerSave ==
    (\A a \in DOMAIN audits : post_save[a] = 1)
        => \A iuser \in DOMAIN reputation :
               OnlyWroteDirectly(iuser)
                   => reputation[iuser] = DirectScoreOf(iuser)

\* the instances a caller holds: new ones, loaded and edited ones, and the
\* one the last call left behind
HeldInstances ==
    NewInstances(DB) \cup EditedInstances(DB) \cup Retained(obj)

\* the successful saves of a held instance that leave a persisted record
PersistingSaves ==
    { out \in
        { Authorizable_save_with_user(DB, o, u) :
            o \in HeldInstances, u \in Users }
        \cup { save_with_user_without_verifying_authorization(DB, o, u) :
            o \in HeldInstances, u \in Users } :
        out.exc = "ok" /\ ~out.obj.is_pending_insert }

\* a repeated save of the instance, by whichever user and entry point,
\* writes no Audit row
RepeatedSaveWritesNoAudit(out) ==
    \A u \in Users :
        /\ Authorizable_save_with_user(out.db, out.obj, u).db.audits
               = out.db.audits
        /\ save_with_user_without_verifying_authorization(
               out.db, out.obj, u).db.audits = out.db.audits

\* C34: after a successful save_with_user of a persisted record the
\* snapshot is the written values and an immediately repeated save writes
\* no Audit row; a record without primary key has an empty snapshot and its
\* first diff holds every constructor value that is not null
C34_SnapshotFollowsSave ==
    /\ \A out \in PersistingSaves :
           /\ out.obj.prev = out.obj.vals
           /\ _updated_fields(out.obj) = {}
           /\ objects_get(out.db, out.obj.model, pk(out.obj)).vals
                  = out.obj.vals
           /\ RepeatedSaveWritesNoAudit(out)
    /\ \A o \in NewInstances(DB) :
           /\ pk(o) = None /\ populate_previous_state(o).prev = << >>
           /\ _updated_fields(populate_previous_state(o))
                  = { f \in DOMAIN o.vals : o.vals[f] # None }

\* a tree created with diameter is held with its new snapshot, and the
\* ledger holds only the three audits of its creation
C34_Reached ==
    /\ obj.model = "Tree" /\ pk(obj) # None /\ ~obj.is_pending_insert
    /\ obj.vals.diameter # None
    /\ obj.prev = obj.vals
    /\ RowExists(DB, "Tree", pk(obj))
    /\ Len(audits) = 3
    /\ \A a \in DOMAIN audits :
           /\ audits[a].model = "Tree" /\ audits[a].model_id = pk(obj)
           /\ audits[a].action = Insert /\ ~audits[a].requires_auth

\* two reviewers hold the same pending audit, each read while its ref was
\* null
BothLoaded(r1, r2) ==
    /\ r1 # r2
    /\ CopiesOf(obj)[r1] # << >> /\ CopiesOf(obj)[r2] # << >>
    /\ CopiesOf(obj)[r1][1].pk = CopiesOf(obj)[r2][1].pk
    /\ CopiesOf(obj)[r1][1].row.ref = None
    /\ CopiesOf(obj)[r2][1].row.ref = None

\* the outcomes of the resolution of the copy a reviewer holds, on a store
LoadedOutcomes(db, r, approved) ==
    LET copy == CopiesOf(obj)[r][1]
    IN  { approve_or_reject_loaded(db, copy.pk, copy.row, r, approved,
                                   related_audits) :
            related_audits \in
                IF ~approved /\ copy.row.field = "id"
                THEN Orders(get_related_audits(db, copy.pk, FALSE))
                ELSE { << >> } }

\* C35: when two reviewers resolve the same pending audit, each holding a
\* copy read while the ref was null, the resolution that comes second
\* fails as already resolved and writes nothing, whatever the decisions
C35_OneConcurrentResolutionWins ==
    \A r1, r2 \in BatchReviewers :
        BothLoaded(r1, r2) =>
            \A approved1, approved2 \in BOOLEAN :
                \A first \in LoadedOutcomes(DB, r1, approved1) :
                    first.exc = "ok" =>
                        \A second \in
                              LoadedOutcomes(first.db, r2, approved2) :
                            /\ second.exc = "Exception"
                            /\ second.db = first.db

\* a reviewer who holds the row as it is in the store is refused once the
\* audit is resolved
FreshCopyIsRefused ==
    \A r \in BatchReviewers :
        (/\ CopiesOf(obj)[r] # << >>
         /\ CopiesOf(obj)[r][1].row = audits[CopiesOf(obj)[r][1].pk]
         /\ CopiesOf(obj)[r][1].row.ref # None)
            => \A approved \in BOOLEAN :
                   \A out \in LoadedOutcomes(DB, r, approved) :
                       out.exc = "Exception" /\ out.db = DB

\* the saves of a new instance that end as a pending insert
PendingInsertSaves ==
    { out \in { Authorizable_save_with_user(DB, o, u) :
                  o \in NewInstances(DB), u \in AllUsers } :
        out.exc = "ok" /\ out.obj.is_pending_insert }

\* C36: every Audit row written by a save that ends as a pending insert has
\* requires_auth = true, whatever levels the user holds on the fields
C36_PendingInsertAuditsArePending ==
    \A out \in PendingInsertSaves :
        /\ ~RowExists(out.db, out.obj.model, pk(out.obj))
        /\ \A a \in AddedBy(out) : out.db.audits[a].requires_auth

\* the audits of a pending insert that are pending: the identity audit and
\* those of the fields the user writes with audit
OnlyAuditedFieldsArePending ==
    \A o \in NewInstances(DB), u \in AllUsers :
        LET out == Authorizable_save_with_user(DB, o, u)
        IN  (out.exc = "ok" /\ out.obj.is_pending_insert) =>
                \A a \in AddedBy(out) :
                    out.db.audits[a].requires_auth
                        <=> \/ out.db.audits[a].field = "id"
                            \/ permission_level(u, o.instance, o.model,
                                                out.db.audits[a].field)
                                   = WRITE_WITH_AUDIT

\* the kind of the review audit an audit refers to matches its requires_auth
KindMatches(db, a) ==
    LET audit == db.audits[a]
    IN  audit.ref # None =>
            /\ db.audits[audit.ref].action \in {PendingApprove, PendingReject}
                   => audit.requires_auth
            /\ db.audits[audit.ref].action \in {ReviewApprove, ReviewReject}
                   => ~audit.requires_auth

\* C37: an audit resolved by a PendingApprove or PendingReject audit has
\* requires_auth = true, one resolved by a ReviewApprove or ReviewReject
\* audit has requires_auth = false, and a review audit is never pending
C37_ResolutionKindMatches ==
    /\ \A a \in AuditPks(DB) : KindMatches(DB, a)
    /\ \A a \in AuditPks(DB) : IsReview(audits[a]) => ~audits[a].requires_auth

\* what holds of the kinds: an after-the-fact review is never linked to an
\* audit that required authorisation, and a review audit is never pending
ReviewKindsAreNotPending ==
    /\ \A a \in AuditPks(DB) :
           (/\ audits[a].ref # None
            /\ audits[audits[a].ref].action \in {ReviewApprove, ReviewReject})
               => ~audits[a].requires_auth
    /\ \A a \in AuditPks(DB) : IsReview(audits[a]) => ~audits[a].requires_auth

\* the audits whose ref is the review audit
ResolvedBy(r) == { a \in AuditPks(DB) : audits[a].ref = r }

\* C38: every review audit of the ledger is the ref of exactly one audit
C38_ReviewAuditHasOneSubject ==
    \A r \in AuditPks(DB) :
        IsReview(audits[r]) => Cardinality(ResolvedBy(r)) = 1

\* no review audit is the ref of two audits, and a ref is a review audit
\* written before the link
ReviewAuditIsNotShared ==
    /\ \A r \in AuditPks(DB) :
           IsReview(audits[r]) => Cardinality(ResolvedBy(r)) <= 1
    /\ \A a \in AuditPks(DB) :
           audits[a].ref # None =>
               /\ audits[a].ref \in AuditPks(DB)
               /\ IsReview(audits[audits[a].ref])

\* the counter of a merged group: the sum where both sides hold the key,
\* else the value of the side that holds it
MergedCounter(old, new, k) ==
    IF k \in DOMAIN old /\ k \in DOMAIN new THEN old[k] + new[k]
    ELSE IF k \in DOMAIN old THEN old[k]
    ELSE new[k]

\* C39: after _combine_benefit_basis(basis, new) every group of new is in
\* basis, a counter held by both sides is the sum of the two values, a
\* counter held by one side keeps its value, a group of basis alone is
\* unchanged, and an empty basis becomes new
C39_BasisIsMergedPerGroup ==
    \A new \in NewBasisGroups :
        LET basis == BasisOf(obj)
            merged == _combine_benefit_basis(basis, new)
        IN  /\ DOMAIN merged = DOMAIN basis \cup DOMAIN new
            /\ \A g \in DOMAIN new \cap DOMAIN basis :
                   /\ DOMAIN merged[g] = DOMAIN basis[g] \cup DOMAIN new[g]
                   /\ \A k \in DOMAIN merged[g] :
                          merged[g][k] = MergedCounter(basis[g], new[g], k)
            /\ \A g \in DOMAIN new \ DOMAIN basis : merged[g] = new[g]
            /\ \A g \in DOMAIN basis \ DOMAIN new : merged[g] = basis[g]
            /\ _combine_benefit_basis(<< >>, new) = new

\* a basis whose first group holds a counter summed over feature classes
\* and whose second group holds a single counter
C39_Reached ==
    /\ obj.model = "Combined"
    /\ DOMAIN obj.basis = BenefitGroups
    /\ DOMAIN obj.basis["group1"] = {"n_objects_used", "n_objects_discarded"}
    /\ obj.basis["group1"]["n_objects_used"] = MaxCount
    /\ obj.basis["group1"]["n_objects_discarded"] = 1
    /\ DOMAIN obj.basis["group2"] = {"n_objects_discarded"}

\* benefit.get('currency', None)
CurrencyOf(benefit) ==
    IF "currency" \in DOMAIN benefit THEN benefit.currency ELSE None

\* the benefits of a group, none when the group is missing
GroupOf(benefits, group) ==
    IF group \in DOMAIN benefits THEN benefits[group] ELSE << >>

\* the entry of a merge for a benefit both sides hold
SumsBoth(merged, old, new) ==
    /\ merged.value = old.value + new.value
    /\ CurrencyOf(merged) =
          IF CurrencyOf(old) # None /\ CurrencyOf(new) # None
          THEN CurrencyOf(old) + CurrencyOf(new)
          ELSE IF CurrencyOf(old) # None THEN CurrencyOf(old)
          ELSE IF CurrencyOf(new) # None THEN CurrencyOf(new)
          ELSE None

\* C40: _combine_grouped_benefits(benefits, new) carries over unchanged
\* the entries of one side alone, and for an entry of both sides the value
\* is the sum and the currency is the sum of the two currencies, the one
\* that is there, or none
C40_BenefitsAreMergedPerName ==
    \A new \in NewBenefitGroups :
        LET benefits == BenefitsOf(obj)
            merged == _combine_grouped_benefits(benefits, new)
        IN  \A group \in BenefitGroups :
                LET old_group == GroupOf(benefits, group)
                    new_group == GroupOf(new, group)
                    merged_group == GroupOf(merged, group)
                IN  /\ DOMAIN merged_group
                          = DOMAIN old_group \cup DOMAIN new_group
                    /\ \A k \in DOMAIN old_group \ DOMAIN new_group :
                           merged_group[k] = old_group[k]
                    /\ \A k \in DOMAIN new_group \ DOMAIN old_group :
                           merged_group[k] = new_group[k]
                    /\ \A k \in DOMAIN old_group \cap DOMAIN new_group :
                           SumsBoth(merged_group[k], old_group[k],
                                    new_group[k])

\* benefits whose first group holds a benefit with summed value and summed
\* currency and one summed without any currency, and whose second group
\* holds a benefit carried over without currency
C40_Reached ==
    /\ obj.model = "Combined"
    /\ DOMAIN obj.benefits = BenefitGroups
    /\ DOMAIN obj.benefits["group1"] = {"benefit1", "benefit2"}
    /\ obj.benefits["group1"]["benefit1"] = [value |-> 2, currency |-> 2]
    /\ obj.benefits["group1"]["benefit2"] = [value |-> 2, currency |-> None]
    /\ obj.benefits["group2"]["benefit1"] = [value |-> 1]

====
